---- MODULE Spec2Model ----
(***************************************************************************)
(* Wordify backend: the definition / sentence generation pipeline.          *)
(*                                                                         *)
(* A text (a Python str) is a sequence of tokens.  A token is one of        *)
(*   - a structural character of JSON:  {  }  [  ]  :  ,  "  \             *)
(*   - white space: " " (blanks) or "\n" (a line break, which is a control  *)
(*     character inside a JSON string)                                      *)
(*   - "FENCE", the markdown fence of three backquotes                      *)
(*   - a run of digits ("1")                                                *)
(*   - a run of other characters ("json", "word", "go", ...), none of which *)
(*     starts with a character that is a JSON escape letter (b f n r t u /) *)
(***************************************************************************)
EXTENDS Integers, Sequences, FiniteSets, TLC

VARIABLES
    apiKey,     \* os.getenv('GEMINI_API_KEY') is set
    op,         \* the endpoint (or extractor) the request is in
    request,    \* the request body: [word |-> a text, batch |-> the items to frame]
    target,     \* the stripped, lower-cased word / phrase of a define request
    pc,         \* position of the request's handler
    attempt,    \* loop variable of: for attempt in range(2)
    posts,      \* timeouts of the requests.post calls issued, in order
    inflight,   \* requests.post calls that have not returned yet
    replies,    \* what each requests.post call ended in, in order
    ret,        \* what the generation client gave its caller
    raw,        \* the text handed to the extractor
    out,        \* what the extractor gave its caller
    resp,       \* the endpoint's HTTP response
    users_collection,    \* db.users: the user documents, in insertion order
    words_collection,    \* db["words"]: the word documents, in insertion order
    phrases_collection,  \* db["phrases"]: the phrase documents, in insertion order
    nextId,     \* the next ObjectId the database hands out
    credentials,         \* the bearer token of the request
    current_user,        \* the user_id verify_token gave the handler
    handlers,   \* the requests the server is handling side by side, one per slot
    loop,       \* the slot whose coroutine runs on the event loop, 0 when it is free
    served      \* how many requests the server has received

store == <<users_collection, words_collection, phrases_collection, nextId>>

\* the server's side-by-side request handling
server == <<handlers, loop, served>>

vars == <<apiKey, op, request, target, pc, attempt, posts, inflight, replies, ret, raw, out, resp,
          users_collection, words_collection, phrases_collection, nextId,
          credentials, current_user, handlers, loop, served>>

---------------------------------------------------------------------------
(* Texts *)

Ws == {" ", "\n"}
Digits == {"1"}
Literals == {"true", "false", "null"}
Fence == "FENCE"

RECURSIVE Concat(_)
Concat(ss) == IF ss = <<>> THEN <<>> ELSE Head(ss) \o Concat(Tail(ss))

StartsWithAt(s, i, pat) ==
    /\ i + Len(pat) - 1 <= Len(s)
    /\ \A k \in 1..Len(pat) : s[i + k - 1] = pat[k]

\* str.replace(old, empty) for an old that cannot overlap itself (the fence, and the
\* fence followed by json): every occurrence is removed
Remove(s, old) ==
    LET hit(i) == \E j \in 1..i : j > i - Len(old) /\ StartsWithAt(s, j, old)
        kept == SelectSeq([i \in 1..Len(s) |-> i], LAMBDA i : ~hit(i))
    IN  [n \in 1..Len(kept) |-> s[kept[n]]]

\* str.strip()
RECURSIVE LStrip(_)
LStrip(s) == IF s # <<>> /\ Head(s) \in Ws THEN LStrip(Tail(s)) ELSE s

RECURSIVE RStrip(_)
RStrip(s) == IF s # <<>> /\ s[Len(s)] \in Ws THEN RStrip(SubSeq(s, 1, Len(s) - 1)) ELSE s

Strip(s) == RStrip(LStrip(s))

Contains(s, pat) == \E i \in 1..Len(s) : StartsWithAt(s, i, pat)

---------------------------------------------------------------------------
(* JSON values: one record shape for all of them.                          *)
(*   str: s = the characters        num, lit: s = <<token>>                *)
(*   arr: items = <<[k |-> <<>>, val |-> v], ...>>                         *)
(*   obj: items = <<[k |-> key, val |-> v], ...>>  (a Python dict)         *)

JStr(s) == [t |-> "str", s |-> s, items |-> <<>>]
JNum(s) == [t |-> "num", s |-> s, items |-> <<>>]
JLit(c) == [t |-> "lit", s |-> <<c>>, items |-> <<>>]
JArr(elems) == [t |-> "arr", s |-> <<>>, items |-> elems]
JObj(pairs) == [t |-> "obj", s |-> <<>>, items |-> pairs]

Null == JLit("null")

KV(key, v) == [k |-> <<key>>, val |-> v]
Elem(v) == [k |-> <<>>, val |-> v]

HasKey(d, key) == d.t = "obj" /\ \E i \in 1..Len(d.items) : d.items[i].k = <<key>>

\* dict.get(key, default)
Get(d, key, default) ==
    IF HasKey(d, key)
    THEN d.items[CHOOSE i \in 1..Len(d.items) : d.items[i].k = <<key>>].val
    ELSE default

\* d[key] = v : a repeated key keeps its place and takes the last value
RECURSIVE DictSet(_, _, _)
DictSet(pairs, key, v) ==
    IF pairs = <<>> THEN <<[k |-> key, val |-> v]>>
    ELSE IF Head(pairs).k = key THEN <<[k |-> key, val |-> v]>> \o Tail(pairs)
    ELSE <<Head(pairs)>> \o DictSet(Tail(pairs), key, v)

\* len(x) of a str, list or dict; -1 stands for TypeError (a number, true, false, null)
PyLen(v) ==
    CASE v.t = "str" -> Len(v.s)
      [] v.t \in {"arr", "obj"} -> Len(v.items)
      [] OTHER -> -1

---------------------------------------------------------------------------
(* json.loads *)

Fail == [ok |-> FALSE, pos |-> 0, val |-> JLit("null")]
Ok(p, v) == [ok |-> TRUE, pos |-> p, val |-> v]

RECURSIVE SkipWs(_, _)
SkipWs(s, i) == IF i <= Len(s) /\ s[i] \in Ws THEN SkipWs(s, i + 1) ELSE i

\* i is the position after the opening quote
RECURSIVE ScanString(_, _, _)
ScanString(s, i, acc) ==
    IF i > Len(s) THEN Fail
    ELSE IF s[i] = "\"" THEN Ok(i + 1, JStr(acc))
    ELSE IF s[i] = "\\"
         THEN IF i + 1 <= Len(s) /\ s[i + 1] \in {"\"", "\\"}
              THEN ScanString(s, i + 2, Append(acc, s[i + 1]))
              ELSE Fail
    ELSE IF s[i] = "\n" THEN Fail
    ELSE ScanString(s, i + 1, Append(acc, s[i]))

RECURSIVE ScanNumber(_, _, _)
ScanNumber(s, i, acc) ==
    IF i <= Len(s) /\ s[i] \in Digits
    THEN ScanNumber(s, i + 1, Append(acc, s[i]))
    ELSE Ok(i, JNum(acc))

RECURSIVE ParseValue(_, _), ParseMembers(_, _, _), ParseElements(_, _, _)

\* i is the position of the value's first character
ParseValue(s, i) ==
    IF i > Len(s) THEN Fail
    ELSE IF s[i] = "\"" THEN ScanString(s, i + 1, <<>>)
    ELSE IF s[i] = "{"
         THEN LET j == SkipWs(s, i + 1)
              IN  IF j <= Len(s) /\ s[j] = "}" THEN Ok(j + 1, JObj(<<>>))
                  ELSE ParseMembers(s, j, <<>>)
    ELSE IF s[i] = "["
         THEN LET j == SkipWs(s, i + 1)
              IN  IF j <= Len(s) /\ s[j] = "]" THEN Ok(j + 1, JArr(<<>>))
                  ELSE ParseElements(s, j, <<>>)
    ELSE IF s[i] \in Digits THEN ScanNumber(s, i, <<>>)
    ELSE IF s[i] \in Literals THEN Ok(i + 1, JLit(s[i]))
    ELSE Fail

\* i is where a property name must start
ParseMembers(s, i, acc) ==
    IF i > Len(s) \/ s[i] # "\"" THEN Fail
    ELSE LET key == ScanString(s, i + 1, <<>>)
         IN  IF ~key.ok THEN Fail
             ELSE LET c == SkipWs(s, key.pos)
                  IN  IF c > Len(s) \/ s[c] # ":" THEN Fail
                      ELSE LET v == ParseValue(s, SkipWs(s, c + 1))
                           IN  IF ~v.ok THEN Fail
                               ELSE LET e == SkipWs(s, v.pos)
                                        acc2 == DictSet(acc, key.val.s, v.val)
                                    IN  IF e > Len(s) THEN Fail
                                        ELSE IF s[e] = "}" THEN Ok(e + 1, JObj(acc2))
                                        ELSE IF s[e] = "," THEN ParseMembers(s, SkipWs(s, e + 1), acc2)
                                        ELSE Fail

\* i is where an element must start
ParseElements(s, i, acc) ==
    LET v == ParseValue(s, i)
    IN  IF ~v.ok THEN Fail
        ELSE LET e == SkipWs(s, v.pos)
                 acc2 == Append(acc, Elem(v.val))
             IN  IF e > Len(s) THEN Fail
                 ELSE IF s[e] = "]" THEN Ok(e + 1, JArr(acc2))
                 ELSE IF s[e] = "," THEN ParseElements(s, SkipWs(s, e + 1), acc2)
                 ELSE Fail

\* json.loads(s): ok = FALSE stands for json.JSONDecodeError
Loads(s) ==
    LET r == ParseValue(s, SkipWs(s, 1))
    IN  IF r.ok /\ SkipWs(s, r.pos) = Len(s) + 1 THEN r ELSE Fail

---------------------------------------------------------------------------
(* Response extractors *)

FirstIndex(s, c) ==
    IF \E i \in 1..Len(s) : s[i] = c
    THEN CHOOSE i \in 1..Len(s) : s[i] = c /\ \A j \in 1..(i - 1) : s[j] # c
    ELSE 0

LastIndex(s, c) ==
    IF \E i \in 1..Len(s) : s[i] = c
    THEN CHOOSE i \in 1..Len(s) : s[i] = c /\ \A j \in (i + 1)..Len(s) : s[j] # c
    ELSE 0

\* faulty variant: a lazy pattern, the first "{" up to the first "}" after it
ReSearchBracesLazy(text) ==
    LET a == FirstIndex(text, "{")
        after == { i \in 1..Len(text) : i > a /\ text[i] = "}" }
    IN  IF a > 0 /\ after # {}
        THEN [found |-> TRUE,
              group |-> SubSeq(text, a, CHOOSE i \in after : \A j \in after : i <= j)]
        ELSE [found |-> FALSE, group |-> <<>>]

\* re.search(r'\{.*\}', response_text, re.DOTALL): the first "{" up to the last "}"
\* after it; found = FALSE stands for None
ReSearchBraces(text) ==
    LET a == FirstIndex(text, "{")
        b == LastIndex(text, "}")
    IN  IF a > 0 /\ b > a
        THEN [found |-> TRUE, group |-> SubSeq(text, a, b)]
        ELSE [found |-> FALSE, group |-> <<>>]

\* json_str.replace(fence json, empty).replace(fence, empty).strip()
CleanMarkdown(json_str) == Strip(Remove(Remove(json_str, <<Fence, "json">>), <<Fence>>))

Unknown == JStr(<<"unknown">>)

\* faulty variant: the wrapper keeps the brace span instead of the whole text
WordWrapperOfSpan(response_text) ==
    LET json_match == ReSearchBraces(response_text)
        body == IF json_match.found THEN json_match.group ELSE response_text
    IN  JObj(<< KV("word", Unknown),
                KV("meanings", JArr(<< Elem(JObj(<< KV("definition", JStr(body)),
                                                    KV("part_of_speech", Unknown),
                                                    KV("examples", JArr(<<>>)),
                                                    KV("synonyms", JArr(<<>>)) >>)) >>)) >>)

\* the dict the word-meanings extractor builds when it finds no JSON
WordWrapper(response_text) ==
    JObj(<< KV("word", Unknown),
            KV("meanings", JArr(<< Elem(JObj(<< KV("definition", JStr(response_text)),
                                                KV("part_of_speech", Unknown),
                                                KV("examples", JArr(<<>>)),
                                                KV("synonyms", JArr(<<>>)) >>)) >>)) >>)

PhraseWrapper(response_text) ==
    JObj(<< KV("phrase", Unknown),
            KV("meanings", JArr(<< Elem(JObj(<< KV("definition", JStr(response_text)),
                                                KV("context", Unknown),
                                                KV("examples", JArr(<<>>)),
                                                KV("similar_phrases", JArr(<<>>)) >>)) >>)) >>)

SentenceWrapper(response_text) ==
    JObj(<< KV("sentences", JArr(<< Elem(JObj(<< KV("word", Unknown),
                                                 KV("meaning", Unknown),
                                                 KV("part_of_speech", Unknown),
                                                 KV("example_sentences",
                                                    JArr(<< Elem(JStr(response_text)) >>)) >>)) >>)) >>)

PhraseSentenceWrapper(response_text) ==
    JObj(<< KV("sentences", JArr(<< Elem(JObj(<< KV("phrase", Unknown),
                                                 KV("meaning", Unknown),
                                                 KV("context", Unknown),
                                                 KV("sentences",
                                                    JArr(<< Elem(JStr(response_text)) >>)) >>)) >>)) >>)

\* What an extractor call ends in.  via names the return statement taken:
\* "loads" (json.loads' value), "no_match" (the else branch), "decode_error" (the
\* except json.JSONDecodeError branch); "raise" is an exception leaving the function.
Returned(via, v) == [via |-> via, val |-> v]
NoOut == Returned("none", JLit("null"))

extract_definitions_from_response_for_words(response_text) ==
    LET json_match == ReSearchBraces(response_text)
    IN  IF json_match.found
        THEN LET loaded == Loads(CleanMarkdown(json_match.group))
             IN  IF loaded.ok THEN Returned("loads", loaded.val)
                 ELSE Returned("decode_error", WordWrapper(response_text))
        ELSE Returned("no_match", WordWrapper(response_text))

extract_phrase_meanings_from_response(response_text) ==
    LET json_match == ReSearchBraces(response_text)
    IN  IF json_match.found
        THEN LET loaded == Loads(CleanMarkdown(json_match.group))
             IN  IF loaded.ok THEN Returned("loads", loaded.val)
                 ELSE Returned("decode_error", PhraseWrapper(response_text))
        ELSE Returned("no_match", PhraseWrapper(response_text))

\* faulty variant: no except clause, the decoding error leaves the extractor
extract_sentences_uncaught(response_text) ==
    LET json_match == ReSearchBraces(response_text)
    IN  IF json_match.found
        THEN LET loaded == Loads(CleanMarkdown(json_match.group))
             IN  IF loaded.ok THEN Returned("loads", loaded.val)
                 ELSE Returned("raise", Null)
        ELSE Returned("no_match", SentenceWrapper(response_text))

extract_sentences_from_response(response_text) ==
    LET json_match == ReSearchBraces(response_text)
    IN  IF json_match.found
        THEN LET loaded == Loads(CleanMarkdown(json_match.group))
             IN  IF loaded.ok THEN Returned("loads", loaded.val)
                 ELSE Returned("decode_error", SentenceWrapper(response_text))
        ELSE Returned("no_match", SentenceWrapper(response_text))

extract_phrase_sentences_from_response(response_text) ==
    LET json_match == ReSearchBraces(response_text)
    IN  IF json_match.found
        THEN LET loaded == Loads(CleanMarkdown(json_match.group))
             IN  IF loaded.ok THEN Returned("loads", loaded.val)
                 ELSE Returned("decode_error", PhraseSentenceWrapper(response_text))
        ELSE Returned("no_match", PhraseSentenceWrapper(response_text))

---------------------------------------------------------------------------
(* Fallback texts *)

Quoted(s) == <<"\"">> \o s \o <<"\"">>
Indent == <<"\n", " ">>

\* faulty variant: a fallback with no placeholder meaning
get_fallback_definition_no_meanings(word) ==
    Concat(<< <<"{">>, Indent,
              Quoted(<<"word">>), <<":", " ">>, Quoted(word), <<",">>, Indent,
              Quoted(<<"meanings">>), <<":", " ", "[", "]">>, Indent,
              <<"}">> >>)

get_fallback_definition(word) ==
    Concat(<< <<"{">>, Indent,
              Quoted(<<"word">>), <<":", " ">>, Quoted(word), <<",">>, Indent,
              Quoted(<<"meanings">>), <<":", " ", "[">>, Indent,
              <<"{">>, Indent,
              Quoted(<<"definition">>), <<":", " ">>,
              Quoted(<<"Definition ", "temporarily unavailable", ". Please try again later.">>),
              <<",">>, Indent,
              Quoted(<<"part_of_speech">>), <<":", " ">>, Quoted(<<"unknown">>), <<",">>, Indent,
              Quoted(<<"examples">>), <<":", " ", "[">>,
              Quoted(<<"The word '">> \o word \o <<"' is being processed.">>), <<"]", ",">>, Indent,
              Quoted(<<"synonyms">>), <<":", " ", "[", "]">>, Indent,
              <<"}">>, Indent,
              <<"]">>, Indent,
              <<"}">> >>)

get_fallback_phrase_definition(phrase) ==
    Concat(<< <<"{">>, Indent,
              Quoted(<<"phrase">>), <<":", " ">>, Quoted(phrase), <<",">>, Indent,
              Quoted(<<"meanings">>), <<":", " ", "[">>, Indent,
              <<"{">>, Indent,
              Quoted(<<"definition">>), <<":", " ">>,
              Quoted(<<"Definition ", "temporarily unavailable", ". Please try again later.">>),
              <<",">>, Indent,
              Quoted(<<"context">>), <<":", " ">>, Quoted(<<"general">>), <<",">>, Indent,
              Quoted(<<"examples">>), <<":", " ", "[">>,
              Quoted(<<"The phrase '">> \o phrase \o <<"' is being processed.">>), <<"]", ",">>, Indent,
              Quoted(<<"similar_phrases">>), <<":", " ", "[", "]">>, Indent,
              <<"}">>, Indent,
              <<"]">>, Indent,
              <<"}">> >>)

---------------------------------------------------------------------------
(* Generation clients.                                                     *)
(* A reply is what one requests.post call ends in:                         *)
(*   timeout        requests.exceptions.Timeout                            *)
(*   conn_error     any other exception of requests.post                   *)
(*   not_ok         a response whose status is not a success               *)
(*   bad_json       a success whose body response.json() cannot decode     *)
(*   no_candidates, no_content, no_parts                                   *)
(*                  a success whose JSON lacks (or has empty) that level   *)
(*   no_text        a success whose parts[0] has no "text" key             *)
(*   text           a success carrying candidates[0].content.parts[0].text *)

FailureKinds == {"timeout", "conn_error", "not_ok", "bad_json",
                 "no_candidates", "no_content", "no_parts", "no_text"}

Reply(kind, text) == [kind |-> kind, text |-> text]

\* not data.get('candidates') or not data['candidates'][0].get('content')
\*   or not data['candidates'][0]['content'].get('parts')
InvalidFormat(reply) == reply.kind \in {"no_candidates", "no_content", "no_parts"}

\* What a piece of client code ends in
Continue == [go |-> "continue", via |-> "none", text |-> <<>>, data |-> Null, msg |-> ""]
Break == [go |-> "break", via |-> "none", text |-> <<>>, data |-> Null, msg |-> ""]
Throw(cls, msg) == [go |-> "throw", via |-> cls, text |-> <<>>, data |-> Null, msg |-> msg]
ReturnText(via, text) == [go |-> "return", via |-> via, text |-> text, data |-> Null, msg |-> ""]
ReturnData(via, data) == [go |-> "return", via |-> via, text |-> <<>>, data |-> data, msg |-> ""]
Raise(msg) == [go |-> "raise", via |-> "raise", text |-> <<>>, data |-> Null, msg |-> msg]
NoRet == [go |-> "none", via |-> "none", text |-> <<>>, data |-> Null, msg |-> ""]

MsgNoKey == "GEMINI_API_KEY environment variable not set"
MsgInvalidFormat == "Invalid response format from Gemini API"
MsgNotOk == "Failed to call Gemini API: status"

\* the message of the exception a reply makes requests.post, response.json() or
\* the subscript ['text'] raise
LibraryMsg(reply) ==
    CASE reply.kind = "timeout" -> "Timeout"
      [] reply.kind = "conn_error" -> "ConnectionError"
      [] reply.kind = "bad_json" -> "JSONDecodeError"
      [] reply.kind = "no_text" -> "KeyError: text"
      [] OTHER -> ""

\* --- words.py call_gemini_for_definitions ---

\* faulty variant: the retry keeps the short timeout
WordTimeoutShort(a) == IF a = 0 THEN 15 ELSE 15

WordTimeout(a) == IF a = 0 THEN 15 ELSE 30

\* faulty variant: what arrives after the timeout is still taken as the answer
WordTryBlockLate(a, reply) ==
    CASE reply.kind = "timeout" /\ reply.text # <<>> -> ReturnText("response_text", reply.text)
      [] reply.kind = "timeout" -> Throw("Timeout", LibraryMsg(reply))
      [] reply.kind = "conn_error" -> Throw("Exception", LibraryMsg(reply))
      [] reply.kind = "not_ok" -> IF a = 1 THEN Throw("Exception", MsgNotOk) ELSE Continue
      [] reply.kind = "bad_json" -> Throw("Exception", LibraryMsg(reply))
      [] InvalidFormat(reply) -> IF a = 1 THEN Throw("Exception", MsgInvalidFormat) ELSE Continue
      [] reply.kind = "no_text" -> Throw("Exception", LibraryMsg(reply))
      [] OTHER -> ReturnText("response_text", reply.text)

\* the try block of the loop body
WordTryBlock(a, reply) ==
    CASE reply.kind = "timeout" -> Throw("Timeout", LibraryMsg(reply))
      [] reply.kind = "conn_error" -> Throw("Exception", LibraryMsg(reply))
      [] reply.kind = "not_ok" -> IF a = 1 THEN Throw("Exception", MsgNotOk) ELSE Continue
      [] reply.kind = "bad_json" -> Throw("Exception", LibraryMsg(reply))
      [] InvalidFormat(reply) -> IF a = 1 THEN Throw("Exception", MsgInvalidFormat) ELSE Continue
      [] reply.kind = "no_text" -> Throw("Exception", LibraryMsg(reply))
      [] OTHER -> ReturnText("response_text", reply.text)

\* faulty variant: the except clauses of the last attempt raise instead of falling back
call_gemini_for_definitions_reraise(word, a, reply) ==
    LET b == WordTryBlock(a, reply)
    IN  IF b.go = "throw" THEN (IF a = 1 THEN Raise(b.msg) ELSE Continue) ELSE b

\* faulty variant: the payload's shape is checked after the loop, outside the except clauses
call_gemini_for_definitions_late_check(word, a, reply) ==
    IF InvalidFormat(reply) \/ reply.kind = "no_text" THEN Raise(MsgInvalidFormat)
    ELSE LET b == WordTryBlock(a, reply)
         IN  IF b.go = "throw"
             THEN IF a = 1 THEN ReturnText("fallback", get_fallback_definition(word)) ELSE Continue
             ELSE b

\* the loop body with its two except clauses
call_gemini_for_definitions_attempt(word, a, reply) ==
    LET b == WordTryBlock(a, reply)
    IN  IF b.go = "throw" /\ b.via = "Timeout"
        THEN IF a = 1 THEN ReturnText("fallback", get_fallback_definition(word)) ELSE Continue
        ELSE IF b.go = "throw"
        THEN IF a = 1 THEN ReturnText("fallback", get_fallback_definition(word)) ELSE Continue
        ELSE b

\* --- phrases.py call_gemini_for_phrase_meanings ---

PhraseTimeout(a) == IF a = 0 THEN 15 ELSE 30

PhraseTryBlock(phrase, a, reply) ==
    CASE reply.kind = "timeout" -> Throw("Timeout", LibraryMsg(reply))
      [] reply.kind = "conn_error" -> Throw("Exception", LibraryMsg(reply))
      [] reply.kind = "not_ok" ->
            IF a = 1 THEN ReturnText("fallback", get_fallback_phrase_definition(phrase))
            ELSE Continue
      [] OTHER -> Break

\* the code after the loop, reached by break; the outer except re-raises
PhraseAfterLoop(reply) ==
    CASE reply.kind = "bad_json" -> Raise(LibraryMsg(reply))
      [] InvalidFormat(reply) -> Raise(MsgInvalidFormat)
      [] reply.kind = "no_text" -> Raise(LibraryMsg(reply))
      [] OTHER -> ReturnText("response_text", reply.text)

call_gemini_for_phrase_meanings_attempt(phrase, a, reply) ==
    LET b == PhraseTryBlock(phrase, a, reply)
    IN  IF b.go = "throw"
        THEN IF a = 1 THEN ReturnText("fallback", get_fallback_phrase_definition(phrase))
             ELSE Continue
        ELSE IF b.go = "break" THEN PhraseAfterLoop(reply)
        ELSE b

\* --- phrases.py call_gemini_for_phrase_sentences ---

PhraseSentenceTimeout == 25

\* faulty variant: a timeout gives a placeholder text instead of raising
call_gemini_for_phrase_sentences_soft(reply) ==
    CASE reply.kind = "timeout" -> ReturnText("fallback", <<>>)
      [] reply.kind \in {"conn_error", "bad_json", "no_text"} -> Raise(LibraryMsg(reply))
      [] reply.kind = "not_ok" -> Raise(MsgNotOk)
      [] InvalidFormat(reply) -> Raise(MsgInvalidFormat)
      [] OTHER -> ReturnText("response_text", reply.text)

call_gemini_for_phrase_sentences_reply(reply) ==
    CASE reply.kind \in {"timeout", "conn_error", "bad_json", "no_text"} -> Raise(LibraryMsg(reply))
      [] reply.kind = "not_ok" -> Raise(MsgNotOk)
      [] InvalidFormat(reply) -> Raise(MsgInvalidFormat)
      [] OTHER -> ReturnText("response_text", reply.text)

\* --- a whole call of a single-lookup client, the provider answering first and,
\*     when there is a second attempt, second ---

call_gemini_for_definitions(word, first, second) ==
    LET r == call_gemini_for_definitions_attempt(word, 0, first)
        again == call_gemini_for_definitions_attempt(word, 1, second)
    IN  IF r.go # "continue" THEN r
        ELSE IF again.go = "continue" THEN ReturnData("none", Null)
        ELSE again

call_gemini_for_phrase_meanings(phrase, first, second) ==
    LET r == call_gemini_for_phrase_meanings_attempt(phrase, 0, first)
        again == call_gemini_for_phrase_meanings_attempt(phrase, 1, second)
    IN  IF r.go # "continue" THEN r
        ELSE IF again.go = "continue"
        THEN ReturnText("fallback", get_fallback_phrase_definition(phrase))
        ELSE again

\* --- sentence.py call_gemini_for_sentences ---

RECURSIVE FallbackItems(_)
FallbackItems(word_data_array) ==
    IF word_data_array = <<>> THEN <<>>
    ELSE LET item == Head(word_data_array)
         IN  << Elem(JObj(<< KV("word", JStr(item.word)),
                             KV("sentences",
                                JArr(<< Elem(JStr(<<"This is an example sentence using the word '">>
                                                  \o item.word \o <<"'.">>)) >>)),
                             KV("part_of_speech", JStr(item.part_of_speech)) >>)) >>
             \o FallbackItems(Tail(word_data_array))

get_fallback_sentences(word_data_array) ==
    JObj(<< KV("sentences", JArr(FallbackItems(word_data_array))) >>)

\* faulty variant: one fixed timeout
SentenceTimeoutFixed(a) == IF a = 0 THEN 25 ELSE 25

SentenceTimeout(a) == IF a = 0 THEN 15 ELSE 30

SentenceTryBlock(word_data_array, a, reply) ==
    CASE reply.kind = "timeout" -> Throw("Timeout", LibraryMsg(reply))
      [] reply.kind = "conn_error" -> Throw("Exception", LibraryMsg(reply))
      [] reply.kind = "not_ok" ->
            IF a = 1 THEN ReturnData("fallback", get_fallback_sentences(word_data_array))
            ELSE Continue
      [] reply.kind = "bad_json" -> Throw("Exception", LibraryMsg(reply))
      [] InvalidFormat(reply) ->
            IF a = 1 THEN ReturnData("fallback", get_fallback_sentences(word_data_array))
            ELSE Continue
      [] reply.kind = "no_text" -> Throw("Exception", LibraryMsg(reply))
      [] OTHER -> Break

call_gemini_for_sentences_attempt(word_data_array, a, reply) ==
    LET b == SentenceTryBlock(word_data_array, a, reply)
    IN  IF b.go = "throw"
        THEN IF a = 1 THEN ReturnData("fallback", get_fallback_sentences(word_data_array))
             ELSE Continue
        ELSE IF b.go = "break" THEN ReturnText("response_text", reply.text)
        ELSE b

---------------------------------------------------------------------------
(* Endpoints *)

\* str(ObjectId): hex = FALSE is a string ObjectId() rejects with InvalidId
OidStr(oid) == [hex |-> TRUE, oid |-> oid]
NotAnId == [hex |-> FALSE, oid |-> 0]

\* status 0: no response yet.  A success carries the keys of the handler's dict: target
\* (word / phrase / deleted_word), items (meanings / sentences), total, processed,
\* source, message, id (word_id / deleted_word_id), docs (words / phrases), deleted_count
NoResp == [status |-> 0, detail |-> <<>>, target |-> <<>>, items |-> Null,
           total |-> 0, processed |-> 0, source |-> "",
           message |-> "", id |-> NotAnId, docs |-> <<>>, deleted_count |-> 0]

\* a handler's return of the keys word / meanings / total / processed / source
Answer(text, items, total, processed) ==
    [NoResp EXCEPT !.status = 200, !.target = text, !.items = items, !.total = total,
                   !.processed = processed, !.source = "gemini_api"]

HTTPException(status_code, detail) == [NoResp EXCEPT !.status = status_code, !.detail = detail]

\* faulty variant: the exception is not caught, the framework answers for it
ServerErrorUncaught(msg) == HTTPException(500, <<"Internal Server Error">>)

\* the handlers' last clause: except Exception as err -> 500 "Server error: {err}"
ServerError(msg) == HTTPException(500, <<"Server error: ", msg>>)

MsgNotAString == "TypeError: expected string or bytes-like object"
MsgNoLen == "TypeError: object has no len()"

\* str.lower() on the tokens that have upper-case letters
RECURSIVE Lower(_)
Lower(s) ==
    IF s = <<>> THEN <<>>
    ELSE <<IF Head(s) = "GO" THEN "go" ELSE Head(s)>> \o Lower(Tail(s))

\* faulty variant: the text is not stripped before the emptiness check
NormalizeNoStrip(s) == Lower(s)

\* request.word.strip().lower()
Normalize(s) == Lower(Strip(s))

Done(r, rawText, extracted, response) ==
    [ret |-> r, raw |-> rawText, out |-> extracted, resp |-> response]

\* faulty variant: the meanings are read under a key the provider's object does not have
define_word_finish_wrong_key(word, r) ==
    IF r.go = "raise" THEN Done(r, <<>>, NoOut, ServerError(r.msg))
    ELSE LET definitions_data == extract_definitions_from_response_for_words(r.text)
             meanings == Get(definitions_data.val, "definitions", JArr(<<>>))
         IN  Done(r, r.text, definitions_data,
                  Answer(word, meanings, PyLen(meanings), 0))

\* words.py define_word, from the return of call_gemini_for_definitions on
define_word_finish(word, r) ==
    IF r.go = "raise" THEN Done(r, <<>>, NoOut, ServerError(r.msg))
    ELSE IF r.via = "none"
    THEN Done(r, <<>>, Returned("raise", Null), ServerError(MsgNotAString))
    ELSE LET definitions_data == extract_definitions_from_response_for_words(r.text)
             meanings == Get(definitions_data.val, "meanings", JArr(<<>>))
         IN  IF PyLen(meanings) < 0
             THEN Done(r, r.text, definitions_data, ServerError(MsgNoLen))
             ELSE Done(r, r.text, definitions_data,
                       Answer(word, meanings, PyLen(meanings), 0))

\* faulty variant: a response built from the fallback text says so in its source
define_phrase_finish_marks_fallback(phrase, r) ==
    IF r.go = "raise" THEN Done(r, <<>>, NoOut, ServerError(r.msg))
    ELSE LET meanings_data == extract_phrase_meanings_from_response(r.text)
             meanings == Get(meanings_data.val, "meanings", JArr(<<>>))
         IN  Done(r, r.text, meanings_data,
                  [Answer(phrase, meanings, PyLen(meanings), 0)
                       EXCEPT !.source = IF r.via = "fallback" THEN "fallback" ELSE "gemini_api"])

\* phrases.py define_phrase, from the return of call_gemini_for_phrase_meanings on
define_phrase_finish(phrase, r) ==
    IF r.go = "raise" THEN Done(r, <<>>, NoOut, ServerError(r.msg))
    ELSE LET meanings_data == extract_phrase_meanings_from_response(r.text)
             meanings == Get(meanings_data.val, "meanings", JArr(<<>>))
         IN  IF PyLen(meanings) < 0
             THEN Done(r, r.text, meanings_data, ServerError(MsgNoLen))
             ELSE Done(r, r.text, meanings_data,
                       Answer(phrase, meanings, PyLen(meanings), 0))

\* sentence.py frame_sentences, from the return of call_gemini_for_sentences on;
\* the fallback is a dict, which re.search rejects with a TypeError
frame_sentences_finish(words_array, r) ==
    IF r.go = "raise" THEN Done(r, <<>>, NoOut, ServerError(r.msg))
    ELSE IF r.via = "fallback"
    THEN Done(r, <<>>, Returned("raise", Null), ServerError(MsgNotAString))
    ELSE LET sentences_data == extract_sentences_from_response(r.text)
             sentences == Get(sentences_data.val, "sentences", JArr(<<>>))
         IN  IF PyLen(sentences) < 0
             THEN Done(r, r.text, sentences_data, ServerError(MsgNoLen))
             ELSE Done(r, r.text, sentences_data,
                       Answer(<<>>, sentences, PyLen(sentences), Len(words_array)))

\* phrases.py frame_phrase_sentences, from the return of call_gemini_for_phrase_sentences on
frame_phrase_sentences_finish(phrases_array, r) ==
    IF r.go = "raise" THEN Done(r, <<>>, NoOut, ServerError(r.msg))
    ELSE LET sentences_data == extract_phrase_sentences_from_response(r.text)
             sentences == Get(sentences_data.val, "sentences", JArr(<<>>))
         IN  IF PyLen(sentences) < 0
             THEN Done(r, r.text, sentences_data, ServerError(MsgNoLen))
             ELSE Done(r, r.text, sentences_data,
                       Answer(<<>>, sentences, PyLen(sentences), Len(phrases_array)))

---------------------------------------------------------------------------
(* Tokens (security.py) *)

\* A token is what jwt.decode makes of it: "ok" (signature and expiry are good; the
\* payload holds user_id), "expired" (jwt.ExpiredSignatureError), "invalid" (any other
\* jwt.InvalidTokenError)
Token(decoded, user_id) == [jwt |-> decoded, user_id |-> user_id]

generate_token(user_id) == Token("ok", OidStr(user_id))

NoToken == Token("none", NotAnId)

Rejected(status_code, detail) ==
    [ok |-> FALSE, error |-> HTTPException(status_code, <<detail>>), user_id |-> NotAnId]

\* faulty variant: the user is not looked up
verify_token_no_lookup(token, users) ==
    CASE token.jwt = "expired" -> Rejected(401, "Token has expired")
      [] token.jwt # "ok" -> Rejected(401, "Invalid token")
      [] OTHER -> [ok |-> TRUE, error |-> NoResp, user_id |-> token.user_id]

verify_token(token, users) ==
    CASE token.jwt = "expired" -> Rejected(401, "Token has expired")
      [] token.jwt # "ok" -> Rejected(401, "Invalid token")
      [] ~token.user_id.hex -> Rejected(401, "Invalid user ID")
      [] ~ \E i \in 1..Len(users) : users[i]._id = token.user_id.oid ->
            Rejected(401, "User not found")
      [] OTHER -> [ok |-> TRUE, error |-> NoResp, user_id |-> token.user_id]

---------------------------------------------------------------------------
(* The collections.  A document of words / phrases is                      *)
(*   [_id, user_id, text, meanings, updated_at]                            *)
(* where text is the field "word" of a word document and "phrase" of a     *)
(* phrase document.                                                        *)

\* a query is a record of the fields a document must have: {"user_id": ..., "word": ...}
Matches(document, query) == \A field \in DOMAIN query : document[field] = query[field]

\* collection.find(query), in stored order
find(collection, query) == SelectSeq(collection, LAMBDA d : Matches(d, query))

\* collection.find_one(query): <<>> stands for None
find_one(collection, query) ==
    LET found == find(collection, query)
    IN  IF found = <<>> THEN <<>> ELSE <<Head(found)>>

\* collection.insert_one(document)
insert_one(collection, document) == Append(collection, document)

\* collection.delete_one(query): the first match goes
delete_one(collection, query) ==
    LET hits == { i \in 1..Len(collection) : Matches(collection[i], query) }
    IN  IF hits = {} THEN [collection |-> collection, deleted_count |-> 0]
        ELSE LET i == CHOOSE h \in hits : \A j \in hits : h <= j
             IN  [collection |-> SubSeq(collection, 1, i - 1)
                                 \o SubSeq(collection, i + 1, Len(collection)),
                  deleted_count |-> 1]

\* sorted(documents, key updated_at, descending), equal keys in their stored order
RECURSIVE SortByUpdatedAtDesc(_)
SortByUpdatedAtDesc(documents) ==
    IF documents = <<>> THEN <<>>
    ELSE LET latest == CHOOSE i \in 1..Len(documents) :
                           /\ \A j \in 1..Len(documents) :
                                  documents[j].updated_at <= documents[i].updated_at
                           /\ \A j \in 1..(i - 1) :
                                  documents[j].updated_at < documents[i].updated_at
         IN  <<documents[latest]>>
             \o SortByUpdatedAtDesc(SubSeq(documents, 1, latest - 1)
                                    \o SubSeq(documents, latest + 1, Len(documents)))

\* what a handler that touches a collection ends in
Outcome(collection, id, response) == [collection |-> collection, nextId |-> id, resp |-> response]

Empty(noun) == <<noun, " cannot be empty">>

\* faulty variant: the existence check looks for the text as it was sent
AddCheckAsSent(noun, collection, user_id, data) ==
    LET text == Lower(Strip(data.word))
        existing_word == find_one(collection, [user_id |-> user_id.oid, text |-> data.word])
    IN  IF text = <<>> THEN HTTPException(400, Empty(noun))
        ELSE IF existing_word # <<>>
        THEN HTTPException(409, <<noun, " already exists in your collection">>)
        ELSE NoResp

\* add_word_manually / add_phrase_manually up to the existence check: the exception
\* that ends the handler, or NoResp when the handler goes on to its insert
AddCheck(noun, collection, user_id, data) ==
    LET text == Lower(Strip(data.word))
        existing_word == find_one(collection, [user_id |-> user_id.oid, text |-> text])
    IN  IF text = <<>> THEN HTTPException(400, Empty(noun))
        ELSE IF existing_word # <<>>
        THEN HTTPException(409, <<noun, " already exists in your collection">>)
        ELSE NoResp

\* add_word_manually / add_phrase_manually from the insert on
AddInsert(noun, collection, id, now, user_id, data) ==
    LET text == Lower(Strip(data.word))
    IN  Outcome(insert_one(collection,
                           [_id |-> id, user_id |-> user_id.oid, text |-> text,
                            meanings |-> data.meanings, updated_at |-> now]),
                id + 1,
                [NoResp EXCEPT !.status = 200, !.message = "added successfully",
                               !.id = OidStr(id), !.target = text])

\* words.py add_word_manually / phrases.py add_phrase_manually
AddManually(noun, collection, id, now, user_id, data) ==
    LET checked == AddCheck(noun, collection, user_id, data)
    IN  IF checked.status # 0 THEN Outcome(collection, id, checked)
        ELSE AddInsert(noun, collection, id, now, user_id, data)

\* words.py get_my_words / phrases.py get_my_phrases
GetMine(collection, id, user_id) ==
    LET mine == SortByUpdatedAtDesc(find(collection, [user_id |-> user_id.oid]))
    IN  Outcome(collection, id,
                [NoResp EXCEPT !.status = 200, !.docs = mine, !.total = Len(mine)])

\* faulty variant: the text is looked for as it was sent
DeleteByTextAsSent(noun, collection, id, user_id, word) ==
    LET word_lower == Lower(Strip(word))
        result == delete_one(collection, [user_id |-> user_id.oid, text |-> word])
    IN  IF word_lower = <<>> THEN Outcome(collection, id, HTTPException(400, Empty(noun)))
        ELSE IF result.deleted_count = 0
        THEN Outcome(result.collection, id,
                     HTTPException(404, <<noun, " '">> \o word \o <<"' not found in your collection">>))
        ELSE Outcome(result.collection, id,
                     [NoResp EXCEPT !.status = 200, !.message = "deleted successfully",
                                    !.target = word, !.deleted_count = result.deleted_count])

\* words.py delete_word / phrases.py delete_phrase
DeleteByText(noun, collection, id, user_id, word) ==
    LET word_lower == Lower(Strip(word))
        result == delete_one(collection, [user_id |-> user_id.oid, text |-> word_lower])
    IN  IF word_lower = <<>> THEN Outcome(collection, id, HTTPException(400, Empty(noun)))
        ELSE IF result.deleted_count = 0
        THEN Outcome(result.collection, id,
                     HTTPException(404, <<noun, " '">> \o word \o <<"' not found in your collection">>))
        ELSE Outcome(result.collection, id,
                     [NoResp EXCEPT !.status = 200, !.message = "deleted successfully",
                                    !.target = word, !.deleted_count = result.deleted_count])

\* faulty variant: the document is looked for by its id alone
DeleteByIdOfAnyUser(noun, collection, id, user_id, word_id) ==
    LET query == [_id |-> word_id.oid]
        word_doc == find_one(collection, query)
        result == delete_one(collection, query)
    IN  IF ~word_id.hex
        THEN Outcome(collection, id, HTTPException(400, <<"Invalid ", noun, " ID format">>))
        ELSE IF word_doc = <<>>
        THEN Outcome(collection, id, HTTPException(404, <<noun, " not found in your collection">>))
        ELSE Outcome(result.collection, id,
                     [NoResp EXCEPT !.status = 200, !.message = "deleted successfully",
                                    !.target = word_doc[1].text, !.id = word_id,
                                    !.deleted_count = result.deleted_count])

\* words.py delete_word_by_id / phrases.py delete_phrase_by_id
DeleteById(noun, collection, id, user_id, word_id) ==
    LET query == [_id |-> word_id.oid, user_id |-> user_id.oid]
        word_doc == find_one(collection, query)
        result == delete_one(collection, query)
    IN  IF ~word_id.hex
        THEN Outcome(collection, id, HTTPException(400, <<"Invalid ", noun, " ID format">>))
        ELSE IF word_doc = <<>>
        THEN Outcome(collection, id, HTTPException(404, <<noun, " not found in your collection">>))
        ELSE Outcome(result.collection, id,
                     [NoResp EXCEPT !.status = 200, !.message = "deleted successfully",
                                    !.target = word_doc[1].text, !.id = word_id,
                                    !.deleted_count = result.deleted_count])

\* faulty variant: the definitions are saved for the caller
define_word_writes_record(collection, id, user_id, word, response) ==
    IF response.status = 200
    THEN insert_one(collection, [_id |-> id, user_id |-> user_id.oid, text |-> word,
                                 meanings |-> <<"defined">>, updated_at |-> 0])
    ELSE collection

\* what define_word does to the words collection: it returns the definitions and
\* makes no call on words_collection
define_word_writes(collection, id, user_id, word, response) == collection

\* what define_phrase does to the phrases collection
define_phrase_writes(collection, id, user_id, phrase, response) == collection

\* words.py define_word as one run of the handler
DefineWord(collection, id, user_id, sent, key, first, second) ==
    LET word == Normalize(sent)
        r == IF key THEN call_gemini_for_definitions(word, first, second) ELSE Raise(MsgNoKey)
        d == define_word_finish(word, r)
    IN  IF word = <<>> THEN Outcome(collection, id, HTTPException(400, Empty("Word")))
        ELSE Outcome(define_word_writes(collection, id, user_id, word, d.resp), id, d.resp)

MsgNotIterable == "TypeError: object is not iterable"
MsgNoGet == "AttributeError: object has no attribute 'get'"
MsgNotAList == "ValidationError: meanings value is not a valid list"

\* what the saving define makes of the extracted meanings before it saves them:
\* [meaning.get('part_of_speech', '') for meaning in meanings], then
\* AddWordRequest(meanings=meanings); "" when both go through
MeaningsError(meanings) ==
    CASE meanings.t \in {"num", "lit"} -> MsgNotIterable
      [] meanings.t = "arr" ->
            IF \A k \in 1..Len(meanings.items) : meanings.items[k].val.t = "obj" THEN ""
            ELSE MsgNoGet
      [] OTHER -> IF PyLen(meanings) = 0 THEN MsgNotAList ELSE MsgNoGet

\* the response of the saving define: the define response with word_id (id) and
\* save_status (message)
Saved(response, save_status, word_id) ==
    [response EXCEPT !.message = save_status, !.id = word_id]

\* the return of call_gemini_for_definitions as define_word receives it
DefinitionsFor(word, key, first, second) ==
    IF key THEN call_gemini_for_definitions(word, first, second) ELSE Raise(MsgNoKey)

\* faulty variant: a fallback result is answered and not saved
SaveDefinedGenuineOnly(collection, id, now, user_id, word, r, d) ==
    LET add_result == AddManually("Word", collection, id, now, user_id,
                                  [word |-> word, meanings |-> d.resp.items])
    IN  IF d.resp.status # 200 THEN Outcome(collection, id, d.resp)
        ELSE IF r.via = "fallback" THEN Outcome(collection, id, Saved(d.resp, "failed", NotAnId))
        ELSE IF add_result.resp.status = 200
        THEN Outcome(add_result.collection, add_result.nextId,
                     Saved(d.resp, "saved", add_result.resp.id))
        ELSE Outcome(collection, id, Saved(d.resp, "already_exists", NotAnId))

\* server.py define_word from the extracted definitions on: r is what the client
\* returned, d what define_word made of it up to meanings
SaveDefined(collection, id, now, user_id, word, r, d) ==
    LET add_result == AddManually("Word", collection, id, now, user_id,
                                  [word |-> word, meanings |-> d.resp.items])
    IN  IF d.resp.status # 200 THEN Outcome(collection, id, d.resp)
        ELSE IF MeaningsError(d.resp.items) # ""
        THEN Outcome(collection, id, ServerError(MeaningsError(d.resp.items)))
        ELSE IF add_result.resp.status = 200
        THEN Outcome(add_result.collection, add_result.nextId,
                     Saved(d.resp, "saved", add_result.resp.id))
        ELSE IF add_result.resp.status = 409
        THEN Outcome(collection, id, Saved(d.resp, "already_exists", NotAnId))
        ELSE Outcome(collection, id, Saved(d.resp, "failed", NotAnId))

\* server.py define_word, the define that saves, as one run of the handler; the client
\* is called once and its return is the r of the rest
DefineWordSaving(collection, id, now, user_id, sent, key, first, second) ==
    LET word == Normalize(sent)
    IN  IF word = <<>> THEN Outcome(collection, id, HTTPException(400, Empty("Word")))
        ELSE CHOOSE outcome \in
                 UNION { { SaveDefined(collection, id, now, user_id, word, r, d) :
                               d \in { define_word_finish(word, r) } } :
                         r \in { DefinitionsFor(word, key, first, second) } }
                 : TRUE

\* phrases.py define_phrase as one run of the handler
DefinePhrase(collection, id, user_id, sent, key, first, second) ==
    LET phrase == Normalize(sent)
        r == IF key THEN call_gemini_for_phrase_meanings(phrase, first, second)
             ELSE Raise(MsgNoKey)
        d == define_phrase_finish(phrase, r)
    IN  IF phrase = <<>> THEN Outcome(collection, id, HTTPException(400, Empty("Phrase")))
        ELSE Outcome(define_phrase_writes(collection, id, user_id, phrase, d.resp), id, d.resp)

---------------------------------------------------------------------------
(* Inputs *)

MaxLen == 5
MaxBatch == 2

\* json.dumps of a value whose strings hold no line break
RECURSIVE Escape(_)
Escape(s) ==
    IF s = <<>> THEN <<>>
    ELSE (IF Head(s) \in {"\"", "\\"} THEN <<"\\", Head(s)>> ELSE <<Head(s)>>) \o Escape(Tail(s))

RECURSIVE Dumps(_), DumpItems(_, _)
Dumps(v) ==
    CASE v.t = "str" -> Quoted(Escape(v.s))
      [] v.t \in {"num", "lit"} -> v.s
      [] v.t = "arr" -> <<"[">> \o DumpItems(v.items, FALSE) \o <<"]">>
      [] OTHER -> <<"{">> \o DumpItems(v.items, TRUE) \o <<"}">>

DumpItems(items, keyed) ==
    IF items = <<>> THEN <<>>
    ELSE (IF keyed THEN Quoted(Escape(Head(items).k)) \o <<":", " ">> ELSE <<>>)
         \o Dumps(Head(items).val)
         \o (IF Len(items) > 1 THEN <<",", " ">> ELSE <<>>)
         \o DumpItems(Tail(items), keyed)

Meaning(definition, category_key, category, related_key) ==
    JObj(<< KV("definition", JStr(<<definition>>)),
            KV(category_key, JStr(<<category>>)),
            KV("examples", JArr(<< Elem(JStr(<<"We go home.">>)) >>)),
            KV(related_key, JArr(<<>>)) >>)

GenuineWord ==
    JObj(<< KV("word", JStr(<<"go">>)),
            KV("meanings", JArr(<< Elem(Meaning("move", "part_of_speech", "verb", "synonyms")),
                                   Elem(Meaning("a try", "part_of_speech", "noun", "synonyms")) >>)) >>)

GenuinePhrase ==
    JObj(<< KV("phrase", JStr(<<"go on">>)),
            KV("meanings", JArr(<< Elem(Meaning("continue", "context", "informal",
                                                "similar_phrases")) >>)) >>)

GenuineSentences ==
    JObj(<< KV("sentences",
               JArr(<< Elem(JObj(<< KV("word", JStr(<<"go">>)),
                                    KV("meaning", JStr(<<"move">>)),
                                    KV("part_of_speech", JStr(<<"verb">>)),
                                    KV("sentences", JArr(<< Elem(JStr(<<"We go home.">>)) >>)) >>)) >>)) >>)

\* texts a provider can put in candidates[0].content.parts[0].text
ProviderTexts ==
    { Dumps(GenuineWord),
      Dumps(GenuinePhrase),
      Dumps(GenuineSentences),
      <<"Sure! Here you go: ">> \o Dumps(GenuineWord),
      <<Fence, "json", "\n">> \o Dumps(GenuinePhrase) \o <<"\n", Fence>>,
      <<"Sorry, I cannot help.">>,
      <<"{", "\"", "a", "\"", ":", "1", "}", " and also ", "{", "\"", "c", "\"", ":", "1", "}">>,
      <<"{", "\"", "meanings", "\"", ":", "1", "}">>,
      <<>> }

\* a timeout's text is what the provider sends after requests.post has given up
Replies ==
    { Reply(k, <<>>) : k \in FailureKinds } \cup { Reply("text", t) : t \in ProviderTexts }
    \cup { Reply("timeout", Dumps(GenuineWord)) }

\* request.word / request.phrase as sent
RequestWords == { <<"go">>, <<" ", "GO", "\n">>, <<"go", " ", "on">>, <<"a", "\"">>,
                  <<"}", "\\">>, <<"{", "\\", "\\">>, <<"a", "\"", ",", " ", "\"", "b">>,
                  <<" ">>, <<>> }

WordItem == [word |-> <<"go">>, meaning |-> <<"move">>, part_of_speech |-> <<"verb">>]
WordItem2 == [word |-> <<"a", "\"">>, meaning |-> <<"a try">>, part_of_speech |-> <<"noun">>]
PhraseItem == [phrase |-> <<"go", " ", "on">>, meaning |-> <<"continue">>, context |-> <<"informal">>]

\* the sequences over S of length at most n
RECURSIVE SeqsUpTo(_, _)
SeqsUpTo(S, n) ==
    IF n = 0 THEN {<<>>}
    ELSE LET shorter == SeqsUpTo(S, n - 1)
         IN  shorter \cup { Append(q, x) : q \in shorter, x \in S }

BatchesOf(items) == SeqsUpTo(items, MaxBatch)

NoRequest == [word |-> <<>>, batch |-> <<>>, meanings |-> <<>>, id |-> NotAnId]

\* how many requests the server handles side by side
MaxHandlers == 2
Slots == 1..MaxHandlers

\* a slot that holds no request
NoHandler == [op |-> "none", pc |-> "idle", credentials |-> NoToken, current_user |-> NotAnId,
              request |-> NoRequest, target |-> <<>>, resp |-> NoResp]

\* db.users as the requests find it
Users == << [_id |-> 1, email |-> "a@example.com"], [_id |-> 2, email |-> "b@example.com"] >>

\* the bearer tokens a request can carry: issued to a user of db.users, issued to a
\* user who is not in db.users, expired, with a wrong signature, and signed but with
\* a user_id that is no ObjectId
Tokens == { generate_token(1), generate_token(2), generate_token(9),
            Token("expired", OidStr(1)), Token("invalid", OidStr(1)), Token("ok", NotAnId) }

Doc(id, user_id, text, meanings, updated_at) ==
    [_id |-> id, user_id |-> user_id, text |-> text, meanings |-> meanings,
     updated_at |-> updated_at]

\* the words and phrases the request finds stored
StoredWords == << Doc(3, 1, <<"go">>, <<"move">>, 1), Doc(4, 2, <<"go">>, <<>>, 2) >>
StoredPhrases == << Doc(5, 1, <<"go", " ", "on">>, <<>>, 2) >>
FirstFreeId == 6

\* datetime.utcnow() of a request
Times == {2, 3}

\* the body of an add request
AddRequests == { [word |-> w, meanings |-> m] : w \in RequestWords, m \in {<<>>, <<"move">>} }

\* the {word_id} / {phrase_id} of a delete_by_id request
RequestIds == { OidStr(3), OidStr(4), OidStr(5), OidStr(8), NotAnId }

---------------------------------------------------------------------------
(* The request handlers *)

Init ==
    /\ apiKey \in BOOLEAN
    /\ op = "none"
    /\ request = NoRequest
    /\ target = <<>>
    /\ pc = "idle"
    /\ attempt = 0
    /\ posts = <<>>
    /\ inflight = 0
    /\ replies = <<>>
    /\ ret = NoRet
    /\ raw = <<>>
    /\ out = NoOut
    /\ resp = NoResp
    /\ users_collection = Users
    /\ words_collection = StoredWords
    /\ phrases_collection = StoredPhrases
    /\ nextId = FirstFreeId
    /\ credentials = NoToken
    /\ current_user = NotAnId
    /\ handlers = [i \in Slots |-> NoHandler]
    /\ loop = 0
    /\ served = 0

\* the handler ends with response r, the client having raised or never run
Finish(clientRet, r) ==
    /\ pc' = "done"
    /\ ret' = clientRet
    /\ resp' = r
    /\ UNCHANGED <<attempt, posts, inflight, replies, raw, out>>

\* the client passed its credential check and enters its try block
EnterClient ==
    /\ pc' = "post"
    /\ UNCHANGED <<attempt, posts, inflight, replies, ret, raw, out, resp>>

\* faulty variant: the client does not look at the credential
define_word_unchecked(token, word) ==
    /\ pc = "idle"
    /\ op' = "define_word"
    /\ request' = [NoRequest EXCEPT !.word = word]
    /\ credentials' = token
    /\ UNCHANGED <<apiKey, store, server>>
    /\ LET auth == verify_token(token, users_collection)
       IN  /\ current_user' = auth.user_id
           /\ IF ~auth.ok
              THEN target' = <<>> /\ Finish(NoRet, auth.error)
              ELSE /\ target' = Normalize(word)
                   /\ IF Normalize(word) = <<>>
                      THEN Finish(NoRet, HTTPException(400, <<"Word cannot be empty">>))
                      ELSE EnterClient

\* POST /words/define up to the first requests.post
define_word(token, word) ==
    /\ pc = "idle"
    /\ op' = "define_word"
    /\ request' = [NoRequest EXCEPT !.word = word]
    /\ credentials' = token
    /\ UNCHANGED <<apiKey, store, server>>
    /\ LET auth == verify_token(token, users_collection)
       IN  /\ current_user' = auth.user_id
           /\ IF ~auth.ok
              THEN target' = <<>> /\ Finish(NoRet, auth.error)
              ELSE /\ target' = Normalize(word)
                   /\ IF Normalize(word) = <<>>
                      THEN Finish(NoRet, HTTPException(400, <<"Word cannot be empty">>))
                      ELSE IF ~apiKey THEN Finish(Raise(MsgNoKey), ServerError(MsgNoKey))
                      ELSE EnterClient

\* POST /phrases/define up to the first requests.post
define_phrase(token, phrase) ==
    /\ pc = "idle"
    /\ op' = "define_phrase"
    /\ request' = [NoRequest EXCEPT !.word = phrase]
    /\ credentials' = token
    /\ UNCHANGED <<apiKey, store, server>>
    /\ LET auth == verify_token(token, users_collection)
       IN  /\ current_user' = auth.user_id
           /\ IF ~auth.ok
              THEN target' = <<>> /\ Finish(NoRet, auth.error)
              ELSE /\ target' = Normalize(phrase)
                   /\ IF Normalize(phrase) = <<>>
                      THEN Finish(NoRet, HTTPException(400, <<"Phrase cannot be empty">>))
                      ELSE IF ~apiKey THEN Finish(Raise(MsgNoKey), ServerError(MsgNoKey))
                      ELSE EnterClient

\* POST /sentences/frame_sentences up to the first requests.post
frame_sentences(words_array) ==
    /\ pc = "idle"
    /\ op' = "frame_sentences"
    /\ request' = [NoRequest EXCEPT !.batch = words_array]
    /\ UNCHANGED <<apiKey, target, store, credentials, current_user, server>>
    /\ IF Len(words_array) = 0
       THEN Finish(NoRet, HTTPException(400, <<"Words must be a non-empty array">>))
       ELSE IF ~apiKey THEN Finish(Raise(MsgNoKey), ServerError(MsgNoKey))
       ELSE EnterClient

\* POST /phrases/frame_sentences up to requests.post
frame_phrase_sentences(phrases_array) ==
    /\ pc = "idle"
    /\ op' = "frame_phrase_sentences"
    /\ request' = [NoRequest EXCEPT !.batch = phrases_array]
    /\ UNCHANGED <<apiKey, target, store, credentials, current_user, server>>
    /\ IF Len(phrases_array) = 0
       THEN Finish(NoRet, HTTPException(400, <<"Phrases must be a non-empty array">>))
       ELSE IF ~apiKey THEN Finish(Raise(MsgNoKey), ServerError(MsgNoKey))
       ELSE EnterClient

TimeoutOf(endpoint, a) ==
    CASE endpoint = "define_word" -> WordTimeout(a)
      [] endpoint = "define_phrase" -> PhraseTimeout(a)
      [] endpoint = "frame_sentences" -> SentenceTimeout(a)
      [] OTHER -> PhraseSentenceTimeout

\* requests.post(url, json=payload, headers=headers, timeout=timeout) is issued
requests_post ==
    /\ pc = "post"
    /\ posts' = Append(posts, TimeoutOf(op, attempt))
    /\ inflight' = inflight + 1
    /\ pc' = "wait"
    /\ UNCHANGED <<apiKey, op, request, target, attempt, replies, ret, raw, out, resp,
                   store, credentials, current_user, server>>

\* the call is over: the next pass of the loop
NextAttempt ==
    /\ pc' = "post"
    /\ attempt' = attempt + 1
    /\ UNCHANGED <<ret, raw, out, resp, words_collection, phrases_collection>>

\* the call is over: the client is left and the handler runs to its end, leaving
\* the collections as words and phrases
Complete(d, words, phrases) ==
    /\ pc' = "done"
    /\ ret' = d.ret
    /\ raw' = d.raw
    /\ out' = d.out
    /\ resp' = d.resp
    /\ words_collection' = words
    /\ phrases_collection' = phrases
    /\ UNCHANGED attempt

Received(reply) ==
    /\ pc = "wait"
    /\ inflight' = inflight - 1
    /\ replies' = Append(replies, reply)
    /\ UNCHANGED <<apiKey, op, request, target, posts, users_collection, nextId,
                   credentials, current_user, server>>

\* requests.post returns or raises in call_gemini_for_definitions
define_word_reply(reply) ==
    /\ op = "define_word"
    /\ Received(reply)
    /\ LET r == call_gemini_for_definitions_attempt(target, attempt, reply)
           d == define_word_finish(target, IF r.go = "continue" THEN ReturnData("none", Null)
                                           ELSE r)
       IN  IF r.go = "continue" /\ attempt = 0 THEN NextAttempt
           ELSE Complete(d, define_word_writes(words_collection, nextId, current_user,
                                               target, d.resp),
                         phrases_collection)

\* requests.post returns or raises in call_gemini_for_phrase_meanings
define_phrase_reply(reply) ==
    /\ op = "define_phrase"
    /\ Received(reply)
    /\ LET r == call_gemini_for_phrase_meanings_attempt(target, attempt, reply)
           d == define_phrase_finish(target,
                    IF r.go = "continue"
                    THEN ReturnText("fallback", get_fallback_phrase_definition(target))
                    ELSE r)
       IN  IF r.go = "continue" /\ attempt = 0 THEN NextAttempt
           ELSE Complete(d, words_collection,
                         define_phrase_writes(phrases_collection, nextId, current_user,
                                              target, d.resp))

\* requests.post returns or raises in call_gemini_for_sentences
frame_sentences_reply(reply) ==
    /\ op = "frame_sentences"
    /\ Received(reply)
    /\ LET r == call_gemini_for_sentences_attempt(request.batch, attempt, reply)
       IN  IF r.go = "continue"
           THEN IF attempt = 0 THEN NextAttempt
                ELSE Complete(frame_sentences_finish(request.batch,
                                  ReturnData("fallback", get_fallback_sentences(request.batch))),
                              words_collection, phrases_collection)
           ELSE Complete(frame_sentences_finish(request.batch, r),
                         words_collection, phrases_collection)

\* requests.post returns or raises in call_gemini_for_phrase_sentences
frame_phrase_sentences_reply(reply) ==
    /\ op = "frame_phrase_sentences"
    /\ Received(reply)
    /\ Complete(frame_phrase_sentences_finish(request.batch,
                    call_gemini_for_phrase_sentences_reply(reply)),
                words_collection, phrases_collection)

\* current_user["user_id"] of a handler that verify_token let in
Caller(token) == verify_token(token, users_collection).user_id

\* a request to an endpoint that reads or writes one collection and calls no provider:
\* Depends(verify_token), then the handler, whose outcome is handled
StoreRequest(name, token, req, onWords, handled) ==
    /\ pc = "idle"
    /\ pc' = "done"
    /\ op' = name
    /\ request' = req
    /\ credentials' = token
    /\ UNCHANGED <<apiKey, target, attempt, posts, inflight, replies, ret, raw, out,
                   users_collection, server>>
    /\ LET auth == verify_token(token, users_collection)
       IN  /\ current_user' = auth.user_id
           /\ IF auth.ok
              THEN LET done == handled
                   IN  /\ resp' = done.resp
                       /\ nextId' = done.nextId
                       /\ IF onWords
                          THEN words_collection' = done.collection /\ UNCHANGED phrases_collection
                          ELSE phrases_collection' = done.collection /\ UNCHANGED words_collection
              ELSE /\ resp' = auth.error
                   /\ UNCHANGED <<words_collection, phrases_collection, nextId>>

\* POST /words/add
add_word_manually(token, word_data, now) ==
    StoreRequest("add_word_manually", token,
                 [NoRequest EXCEPT !.word = word_data.word, !.meanings = word_data.meanings], TRUE,
                 AddManually("Word", words_collection, nextId, now, Caller(token), word_data))

\* GET /words/my_words
get_my_words(token) ==
    StoreRequest("get_my_words", token, NoRequest, TRUE,
                 GetMine(words_collection, nextId, Caller(token)))

\* DELETE /words/delete/{word}
delete_word(token, word) ==
    StoreRequest("delete_word", token, [NoRequest EXCEPT !.word = word], TRUE,
                 DeleteByText("Word", words_collection, nextId, Caller(token), word))

\* DELETE /words/delete_by_id/{word_id}
delete_word_by_id(token, word_id) ==
    StoreRequest("delete_word_by_id", token, [NoRequest EXCEPT !.id = word_id], TRUE,
                 DeleteById("Word", words_collection, nextId, Caller(token), word_id))

\* POST /phrases/add
add_phrase_manually(token, phrase_data, now) ==
    StoreRequest("add_phrase_manually", token,
                 [NoRequest EXCEPT !.word = phrase_data.word, !.meanings = phrase_data.meanings],
                 FALSE,
                 AddManually("Phrase", phrases_collection, nextId, now, Caller(token), phrase_data))

\* GET /phrases/my_phrases
get_my_phrases(token) ==
    StoreRequest("get_my_phrases", token, NoRequest, FALSE,
                 GetMine(phrases_collection, nextId, Caller(token)))

\* DELETE /phrases/delete/{phrase}
delete_phrase(token, phrase) ==
    StoreRequest("delete_phrase", token, [NoRequest EXCEPT !.word = phrase], FALSE,
                 DeleteByText("Phrase", phrases_collection, nextId, Caller(token), phrase))

\* DELETE /phrases/delete_by_id/{phrase_id}
delete_phrase_by_id(token, phrase_id) ==
    StoreRequest("delete_phrase_by_id", token, [NoRequest EXCEPT !.id = phrase_id], FALSE,
                 DeleteById("Phrase", phrases_collection, nextId, Caller(token), phrase_id))

Next ==
    \/ \E t \in Tokens, w \in RequestWords : define_word(t, w)
    \/ \E t \in Tokens, p \in RequestWords : define_phrase(t, p)
    \/ \E t \in Tokens, d \in AddRequests, now \in Times : add_word_manually(t, d, now)
    \/ \E t \in Tokens : get_my_words(t)
    \/ \E t \in Tokens, w \in RequestWords : delete_word(t, w)
    \/ \E t \in Tokens, i \in RequestIds : delete_word_by_id(t, i)
    \/ \E t \in Tokens, d \in AddRequests, now \in Times : add_phrase_manually(t, d, now)
    \/ \E t \in Tokens : get_my_phrases(t)
    \/ \E t \in Tokens, p \in RequestWords : delete_phrase(t, p)
    \/ \E t \in Tokens, i \in RequestIds : delete_phrase_by_id(t, i)
    \/ \E b \in BatchesOf({WordItem, WordItem2}) : frame_sentences(b)
    \/ \E b \in BatchesOf({PhraseItem}) : frame_phrase_sentences(b)
    \/ requests_post
    \/ \E reply \in Replies : define_word_reply(reply)
    \/ \E reply \in Replies : define_phrase_reply(reply)
    \/ \E reply \in Replies : frame_sentences_reply(reply)
    \/ \E reply \in Replies : frame_phrase_sentences_reply(reply)

Spec == Init /\ [][Next]_vars

---------------------------------------------------------------------------
(* The extractors on their own, on every short text and on the provider's  *)
(* and the fallback texts                                                  *)

Alphabet == {"{", "}", "\"", Fence, "json", " "}

\* small JSON objects and the prose a provider puts around or between them
SmallObjects == { JObj(<<>>), JObj(<< KV("a", JNum(<<"1">>)) >>), GenuineWord }

ProseBetween == { <<>>, <<" and also ">>, <<"\n">>, <<Fence, "json">> }

TwoObjectTexts ==
    { Dumps(o1) \o p \o Dumps(o2) : o1 \in SmallObjects, o2 \in SmallObjects, p \in ProseBetween }

\* the characters a string value of the provider's object can hold
StringValues == { <<"go">>, <<"a", "\"">>, <<"}", "\\">>, <<"{">>, <<>>,
                  <<Fence>>, <<"use ", Fence, "json", " to open a block">> }

ProseBefore == { <<>>, <<"Sure! Here you go: ">>, <<Fence, "json", "\n">> }
ProseAfter == { <<>>, <<"\n", Fence>>, <<" Hope it helps.">> }

OneObject(definition) ==
    JObj(<< KV("word", JStr(<<"go">>)),
            KV("meanings", JArr(<< Elem(JObj(<< KV("definition", JStr(definition)) >>)) >>)) >>)

\* a text of prose around one object, with the object it was written from
RoundTripCases ==
    { [text |-> pre \o Dumps(OneObject(v)) \o post, obj |-> OneObject(v)] :
        v \in StringValues, pre \in ProseBefore, post \in ProseAfter }

RawTexts ==
    SeqsUpTo(Alphabet, MaxLen) \cup ProviderTexts
    \cup TwoObjectTexts \cup { c.text : c \in RoundTripCases }
    \cup { get_fallback_definition(Normalize(w)) : w \in RequestWords }
    \cup { get_fallback_phrase_definition(Normalize(w)) : w \in RequestWords }

InitExtract ==
    /\ apiKey = TRUE
    /\ op = "none"
    /\ request = NoRequest
    /\ target = <<>>
    /\ pc = "extract"
    /\ attempt = 0
    /\ posts = <<>>
    /\ inflight = 0
    /\ replies = <<>>
    /\ ret = NoRet
    /\ raw \in RawTexts
    /\ out = NoOut
    /\ resp = NoResp
    /\ users_collection = Users
    /\ words_collection = StoredWords
    /\ phrases_collection = StoredPhrases
    /\ nextId = FirstFreeId
    /\ credentials = NoToken
    /\ current_user = NotAnId
    /\ handlers = [i \in Slots |-> NoHandler]
    /\ loop = 0
    /\ served = 0

Extracted(name, result) ==
    /\ pc = "extract"
    /\ pc' = "extracted"
    /\ op' = name
    /\ out' = result
    /\ UNCHANGED <<apiKey, request, target, attempt, posts, inflight, replies, ret, raw, resp,
                   store, credentials, current_user, server>>

ExtractWordMeanings ==
    Extracted("extract_definitions_from_response_for_words",
              extract_definitions_from_response_for_words(raw))

ExtractPhraseMeanings ==
    Extracted("extract_phrase_meanings_from_response",
              extract_phrase_meanings_from_response(raw))

ExtractSentences ==
    Extracted("extract_sentences_from_response", extract_sentences_from_response(raw))

ExtractPhraseSentences ==
    Extracted("extract_phrase_sentences_from_response",
              extract_phrase_sentences_from_response(raw))

NextExtract ==
    \/ ExtractWordMeanings
    \/ ExtractPhraseMeanings
    \/ ExtractSentences
    \/ ExtractPhraseSentences

SpecExtract == InitExtract /\ [][NextExtract]_vars

---------------------------------------------------------------------------
(* The server handling requests side by side.                              *)
(* A request is routed to a slot, its dependency verify_token (a def) runs *)
(* in the thread pool, and its handler, an async def, runs as a coroutine  *)
(* on the one event loop of the server process started by uvicorn.run.     *)
(* The handlers of words.py and phrases.py await nothing: their database   *)
(* calls block the loop, so a handler keeps the loop until it returns.     *)

\* the single-request variables, which this part leaves alone
single == <<apiKey, op, request, target, pc, attempt, posts, inflight, replies, ret, raw,
            out, resp, credentials, current_user>>

\* how many requests the server receives
MaxRequests == 3

\* the tokens of the two users of db.users
UserTokens == { generate_token(1), generate_token(2) }

StoreWords == { <<"go">>, <<" ", "GO", "\n">>, <<"on">> }
StorePhrases == { <<"go", " ", "on">>, <<"GO", " ", "on", " ">> }

Asks(name, texts, ids) ==
    { [NoRequest EXCEPT !.word = w, !.id = i] : w \in texts, i \in ids }
    \X {name} \X UserTokens

\* the requests to the endpoints of words.py and phrases.py that read or write a
\* collection: <<body, endpoint, token>>
StoreRequests ==
    Asks("add_word_manually", StoreWords, {NotAnId})
    \cup Asks("delete_word", StoreWords, {NotAnId})
    \cup Asks("delete_word_by_id", {<<>>}, {OidStr(3), OidStr(4), OidStr(6)})
    \cup Asks("get_my_words", {<<>>}, {NotAnId})
    \cup Asks("add_phrase_manually", StorePhrases, {NotAnId})
    \cup Asks("delete_phrase", StorePhrases, {NotAnId})
    \cup Asks("delete_phrase_by_id", {<<>>}, {OidStr(5), OidStr(6)})
    \cup Asks("get_my_phrases", {<<>>}, {NotAnId})
    \cup Asks("define_word", {<<"on">>}, {NotAnId})
    \cup Asks("define_phrase", {<<"go", " ", "on">>}, {NotAnId})

\* what the provider does to the two attempts of a lookup: an outage (no answer in
\* time, twice) or the answer asked for (the second attempt is not made)
Outage == << Reply("timeout", <<>>), Reply("timeout", <<>>) >>
WordProviders == { Outage, << Reply("text", Dumps(GenuineWord)), Reply("timeout", <<>>) >> }
PhraseProviders == { Outage, << Reply("text", Dumps(GenuinePhrase)), Reply("timeout", <<>>) >> }

InitServer ==
    /\ apiKey = TRUE
    /\ op = "none"
    /\ request = NoRequest
    /\ target = <<>>
    /\ pc = "idle"
    /\ attempt = 0
    /\ posts = <<>>
    /\ inflight = 0
    /\ replies = <<>>
    /\ ret = NoRet
    /\ raw = <<>>
    /\ out = NoOut
    /\ resp = NoResp
    /\ users_collection = Users
    /\ words_collection = StoredWords
    /\ phrases_collection = StoredPhrases
    /\ nextId = FirstFreeId
    /\ credentials = NoToken
    /\ current_user = NotAnId
    /\ handlers = [i \in Slots |-> NoHandler]
    /\ loop = 0
    /\ served = 0

\* the server accepts a request into its first free slot
Receive(i, ask) ==
    /\ served < MaxRequests
    /\ handlers[i].pc = "idle"
    /\ \A j \in 1..(i - 1) : handlers[j].pc # "idle"
    /\ handlers' = [handlers EXCEPT ![i] = [NoHandler EXCEPT !.op = ask[2], !.pc = "verify",
                                                             !.credentials = ask[3],
                                                             !.request = ask[1]]]
    /\ served' = served + 1
    /\ UNCHANGED <<single, store, loop>>

\* Depends(verify_token): the dependency of a request, run in the thread pool
Depends_verify_token(i) ==
    /\ handlers[i].pc = "verify"
    /\ LET auth == verify_token(handlers[i].credentials, users_collection)
       IN  handlers' = [handlers EXCEPT ![i].current_user = auth.user_id,
                                        ![i].pc = IF auth.ok THEN "ready" ELSE "done",
                                        ![i].resp = auth.error]
    /\ UNCHANGED <<single, store, loop, served>>

\* faulty variant: the handlers are defs, run in the thread pool side by side
InThreadPool(i) == TRUE

\* the event loop starts a coroutine when no other coroutine is running on it
OnEventLoop(i) == loop = 0

\* the collection of a handler's endpoint is written, the other one is not
Written(onWords, collection) ==
    IF onWords THEN words_collection' = collection /\ UNCHANGED phrases_collection
    ELSE phrases_collection' = collection /\ UNCHANGED words_collection

\* a handler that runs from its first line to its return without leaving the loop
Handle(i, name, onWords, handled) ==
    /\ handlers[i].op = name
    /\ handlers[i].pc = "ready"
    /\ OnEventLoop(i)
    /\ \E done \in {handled} :
           /\ handlers' = [handlers EXCEPT ![i].pc = "done", ![i].resp = done.resp]
           /\ nextId' = done.nextId
           /\ Written(onWords, done.collection)
    /\ UNCHANGED <<single, users_collection, loop, served>>

\* add_word_manually / add_phrase_manually up to the existence check
HandleAddCheck(i, name, noun, collection) ==
    /\ handlers[i].op = name
    /\ handlers[i].pc = "ready"
    /\ OnEventLoop(i)
    /\ LET checked == AddCheck(noun, collection, handlers[i].current_user, handlers[i].request)
       IN  IF checked.status # 0
           THEN /\ handlers' = [handlers EXCEPT ![i].pc = "done", ![i].resp = checked]
                /\ UNCHANGED loop
           ELSE /\ handlers' = [handlers EXCEPT ![i].pc = "insert"]
                /\ loop' = i
    /\ UNCHANGED <<single, store, served>>

\* add_word_manually / add_phrase_manually from insert_one to the return
HandleAddInsert(i, name, noun, onWords, collection, now) ==
    /\ handlers[i].op = name
    /\ handlers[i].pc = "insert"
    /\ LET added == AddInsert(noun, collection, nextId, now, handlers[i].current_user,
                              handlers[i].request)
       IN  /\ handlers' = [handlers EXCEPT ![i].pc = "done", ![i].resp = added.resp]
           /\ nextId' = added.nextId
           /\ Written(onWords, added.collection)
    /\ loop' = 0
    /\ UNCHANGED <<single, users_collection, served>>

\* POST /words/add
add_word_manually_find_one(i) ==
    HandleAddCheck(i, "add_word_manually", "Word", words_collection)

add_word_manually_insert_one(i, now) ==
    HandleAddInsert(i, "add_word_manually", "Word", TRUE, words_collection, now)

\* POST /phrases/add
add_phrase_manually_find_one(i) ==
    HandleAddCheck(i, "add_phrase_manually", "Phrase", phrases_collection)

add_phrase_manually_insert_one(i, now) ==
    HandleAddInsert(i, "add_phrase_manually", "Phrase", FALSE, phrases_collection, now)

\* GET /words/my_words
get_my_words_handler(i) ==
    Handle(i, "get_my_words", TRUE,
           GetMine(words_collection, nextId, handlers[i].current_user))

\* DELETE /words/delete/{word}
delete_word_handler(i) ==
    Handle(i, "delete_word", TRUE,
           DeleteByText("Word", words_collection, nextId, handlers[i].current_user,
                        handlers[i].request.word))

\* DELETE /words/delete_by_id/{word_id}
delete_word_by_id_handler(i) ==
    Handle(i, "delete_word_by_id", TRUE,
           DeleteById("Word", words_collection, nextId, handlers[i].current_user,
                      handlers[i].request.id))

\* GET /phrases/my_phrases
get_my_phrases_handler(i) ==
    Handle(i, "get_my_phrases", FALSE,
           GetMine(phrases_collection, nextId, handlers[i].current_user))

\* DELETE /phrases/delete/{phrase}
delete_phrase_handler(i) ==
    Handle(i, "delete_phrase", FALSE,
           DeleteByText("Phrase", phrases_collection, nextId, handlers[i].current_user,
                        handlers[i].request.word))

\* DELETE /phrases/delete_by_id/{phrase_id}
delete_phrase_by_id_handler(i) ==
    Handle(i, "delete_phrase_by_id", FALSE,
           DeleteById("Phrase", phrases_collection, nextId, handlers[i].current_user,
                      handlers[i].request.id))

\* POST /words/define: the handler blocks the loop while its client waits
define_word_handler(i, provider) ==
    Handle(i, "define_word", TRUE,
           DefineWord(words_collection, nextId, handlers[i].current_user,
                      handlers[i].request.word, apiKey, provider[1], provider[2]))

\* POST /phrases/define
define_phrase_handler(i, provider) ==
    Handle(i, "define_phrase", FALSE,
           DefinePhrase(phrases_collection, nextId, handlers[i].current_user,
                        handlers[i].request.word, apiKey, provider[1], provider[2]))

\* the response is sent and the slot is free again
Respond(i) ==
    /\ handlers[i].pc = "done"
    /\ handlers' = [handlers EXCEPT ![i] = NoHandler]
    /\ UNCHANGED <<single, store, loop, served>>

\* POST /define of server.py: the define that saves what it found
define_word_saving_handler(i, provider, now) ==
    Handle(i, "define_word_saving", TRUE,
           DefineWordSaving(words_collection, nextId, now, handlers[i].current_user,
                            handlers[i].request.word, apiKey, provider[1], provider[2]))

NextStore ==
    \/ \E i \in Slots, ask \in StoreRequests : Receive(i, ask)
    \/ \E i \in Slots : Depends_verify_token(i)
    \/ \E i \in Slots : add_word_manually_find_one(i)
    \/ \E i \in Slots, now \in Times : add_word_manually_insert_one(i, now)
    \/ \E i \in Slots : get_my_words_handler(i)
    \/ \E i \in Slots : delete_word_handler(i)
    \/ \E i \in Slots : delete_word_by_id_handler(i)
    \/ \E i \in Slots : add_phrase_manually_find_one(i)
    \/ \E i \in Slots, now \in Times : add_phrase_manually_insert_one(i, now)
    \/ \E i \in Slots : get_my_phrases_handler(i)
    \/ \E i \in Slots : delete_phrase_handler(i)
    \/ \E i \in Slots : delete_phrase_by_id_handler(i)
    \/ \E i \in Slots, provider \in WordProviders : define_word_handler(i, provider)
    \/ \E i \in Slots, provider \in PhraseProviders : define_phrase_handler(i, provider)
    \/ \E i \in Slots : Respond(i)

SpecStore == InitServer /\ [][NextStore]_vars

\* the words sent to the define that saves
SavedWords == { <<" ", "on">> }

\* the requests to server.py's define and to the routes that undo what it saved
SavingRequests ==
    Asks("define_word_saving", SavedWords, {NotAnId})
    \cup Asks("delete_word", SavedWords, {NotAnId})
    \cup Asks("delete_word_by_id", {<<>>}, {OidStr(FirstFreeId)})

\* the provider of a saving define: an outage, the answer asked for, or prose
SavingProviders ==
    WordProviders \cup { << Reply("text", <<"Sorry, I cannot help.">>), Reply("timeout", <<>>) >> }

NextSaving ==
    \/ \E i \in Slots, ask \in SavingRequests : Receive(i, ask)
    \/ \E i \in Slots : Depends_verify_token(i)
    \/ \E i \in Slots, provider \in SavingProviders, now \in Times :
           define_word_saving_handler(i, provider, now)
    \/ \E i \in Slots : delete_word_handler(i)
    \/ \E i \in Slots : delete_word_by_id_handler(i)
    \/ \E i \in Slots : Respond(i)

SpecSaving == InitServer /\ [][NextSaving]_vars

---------------------------------------------------------------------------
(* Registration (auth.py, security.py) *)

\* str.lower() on the addresses that have upper-case letters
LowerEmail(email) == IF email = "C@example.com" THEN "c@example.com" ELSE email

\* the shortest password signup accepts
MinPassword == 6

\* SignupRequest: the password is its characters
SignupRequest(email, password, name) == [email |-> email, password |-> password, name |-> name]

\* the signups sent: a new address in two spellings, the address of a user, and a
\* password of five and of six characters
SignupRequests ==
    { SignupRequest(e, p, <<"Kim">>) :
          e \in {"c@example.com", "C@example.com", "a@example.com"},
          p \in { <<"s", "e", "c", "r", "e">>, <<"s", "e", "c", "r", "e", "t">> } }

\* security.py get_user_by_email: <<>> stands for None
get_user_by_email(users, email) == find_one(users, [email |-> LowerEmail(email)])

\* security.py create_user: the document's other fields (password hash, name, the two
\* dates) are read by no signup
create_user(users, id, email) == insert_one(users, [_id |-> id, email |-> LowerEmail(email)])

\* the dict signup returns
SignupAnswer(user_id, email, name) ==
    [status |-> 200, message |-> "User created successfully", user_id |-> OidStr(user_id),
     email |-> email, name |-> name, token |-> generate_token(user_id)]

\* POST /auth/signup has no dependency: the handler starts as the request arrives
signup_receive(i, signup_request) ==
    /\ served < MaxRequests
    /\ handlers[i].pc = "idle"
    /\ \A j \in 1..(i - 1) : handlers[j].pc # "idle"
    /\ handlers' = [handlers EXCEPT ![i] = [NoHandler EXCEPT !.op = "signup", !.pc = "ready",
                                                             !.request = signup_request]]
    /\ served' = served + 1
    /\ UNCHANGED <<single, store, loop>>

\* signup up to the call of create_user: NoResp when both checks pass
signup_checks(users, signup_request) ==
    IF Len(signup_request.password) < MinPassword
    THEN HTTPException(400, <<"Password must be at least 6 characters long">>)
    ELSE IF get_user_by_email(users, LowerEmail(signup_request.email)) # <<>>
    THEN HTTPException(409, <<"User with this email already exists">>)
    ELSE NoResp

\* signup is a def, run in the thread pool: its find_one is one step of its thread
signup_get_user_by_email(i) ==
    /\ handlers[i].op = "signup"
    /\ handlers[i].pc = "ready"
    /\ LET checked == signup_checks(users_collection, handlers[i].request)
       IN  handlers' = [handlers EXCEPT ![i].pc = IF checked.status # 0 THEN "done" ELSE "insert",
                                        ![i].resp = checked]
    /\ UNCHANGED <<single, store, loop, served>>

\* and its insert_one is a later step: create_user, generate_token and the return
signup_create_user(i) ==
    /\ handlers[i].op = "signup"
    /\ handlers[i].pc = "insert"
    /\ users_collection' = create_user(users_collection, nextId,
                                       LowerEmail(handlers[i].request.email))
    /\ nextId' = nextId + 1
    /\ handlers' = [handlers EXCEPT
                        ![i].pc = "done",
                        ![i].resp = SignupAnswer(nextId, LowerEmail(handlers[i].request.email),
                                                 Strip(handlers[i].request.name))]
    /\ UNCHANGED <<single, words_collection, phrases_collection, loop, served>>

NextSignup ==
    \/ \E i \in Slots, signup_request \in SignupRequests : signup_receive(i, signup_request)
    \/ \E i \in Slots : signup_get_user_by_email(i)
    \/ \E i \in Slots : signup_create_user(i)
    \/ \E i \in Slots : Respond(i)

SpecSignup == InitServer /\ [][NextSignup]_vars

---------------------------------------------------------------------------
(* Properties *)

SingleLookups == {"define_word", "define_phrase"}
TransportFailures == {"timeout", "conn_error", "not_ok"}
MalformedKinds == {"no_candidates", "no_content", "no_parts", "no_text"}

\* the handler got past its input check, so it called its generation client
ClientCalled ==
    \/ op \in SingleLookups /\ target # <<>>
    \/ op \in {"frame_sentences", "frame_phrase_sentences"} /\ request.batch # <<>>

\* the second attempt has been issued or is the next thing the client does
SecondAttemptTaken == Len(posts) = 2 \/ (pc = "post" /\ attempt = 1)

LastReply == replies[Len(replies)]

\* C1: in each of the four generation clients, when GEMINI_API_KEY is not set the call
\* raises before any requests.post is issued and never returns a fallback.
C1_NoCredentialRaisesBeforeAnyRequest ==
    (~apiKey /\ ClientCalled) =>
        /\ pc = "done"
        /\ posts = <<>> /\ inflight = 0 /\ replies = <<>>
        /\ ret.go = "raise" /\ ret.msg = MsgNoKey
        /\ ret.via # "fallback"

C1_Witness ==
    /\ ~apiKey /\ op = "frame_sentences" /\ ClientCalled
    /\ ret.go = "raise" /\ posts = <<>>

\* C2 as claimed: in a single-word or single-phrase lookup the first attempt has timeout
\* 15, a second attempt with timeout 30 is taken if and only if the first ended in a
\* timeout, a transport error or a non-success status, there are never more than two
\* attempts, and the lookup is over once its attempts have completed.
C2_RetryOnlyOnTransportFailure ==
    op \in SingleLookups =>
        /\ Len(posts) <= 2
        /\ Len(posts) >= 1 => posts[1] = 15
        /\ Len(posts) = 2 => posts[2] = 30
        /\ Len(replies) >= 1 => (SecondAttemptTaken <=> replies[1].kind \in TransportFailures)
        /\ Len(replies) = 2 => pc = "done"

\* the first replies after which each single lookup tries again
RetriedKinds(endpoint) ==
    IF endpoint = "define_word" THEN FailureKinds ELSE TransportFailures

\* C2 as amended: as claimed, but the second attempt is taken if and only if the first
\* ended in a timeout, a transport error or a non-success status or, in the word lookup
\* only, in a success status whose payload cannot be decoded or lacks the text.
C2_RetryPerLookup ==
    op \in SingleLookups =>
        /\ Len(posts) <= 2
        /\ Len(posts) >= 1 => posts[1] = 15
        /\ Len(posts) = 2 => posts[2] = 30
        /\ Len(replies) >= 1 => (SecondAttemptTaken <=> replies[1].kind \in RetriedKinds(op))
        /\ Len(replies) = 2 => pc = "done"

C2_Witness ==
    /\ op = "define_word" /\ pc = "done"
    /\ posts = <<15, 30>>
    /\ replies[1].kind = "no_parts" /\ replies[2].kind = "text"

\* C3: in a single-word or single-phrase lookup with the credential set, when both
\* attempts end in a timeout, a connection error or a non-success status (in any
\* combination), the client returns the fallback text of its target and does not raise.
C3_TwoTransportFailuresGiveFallback ==
    (/\ op \in SingleLookups /\ apiKey /\ Len(replies) = 2
     /\ replies[1].kind \in TransportFailures /\ replies[2].kind \in TransportFailures) =>
        /\ pc = "done"
        /\ ret.go = "return" /\ ret.via = "fallback"
        /\ ret.text = IF op = "define_word" THEN get_fallback_definition(target)
                      ELSE get_fallback_phrase_definition(target)

C3_Witness ==
    /\ op = "define_phrase" /\ Len(replies) = 2
    /\ replies[1].kind = "timeout" /\ replies[2].kind = "not_ok"
    /\ ret.via = "fallback"

\* C4: in the single-word lookup a reply with success status but a malformed payload
\* (no candidates, content, parts or text) leads to the second attempt when it is the
\* first reply, and to the fallback text, never an error, when it is the last.
C4_WordMalformedPayloadRetriesThenFallsBack ==
    op = "define_word" =>
        /\ (Len(replies) = 1 /\ replies[1].kind \in MalformedKinds) =>
               (SecondAttemptTaken /\ ret = NoRet /\ resp = NoResp)
        /\ (Len(replies) = 2 /\ replies[2].kind \in MalformedKinds) =>
               /\ pc = "done"
               /\ ret.go = "return" /\ ret.via = "fallback"
               /\ ret.text = get_fallback_definition(target)
               /\ resp.status # 500

C4_Witness ==
    /\ op = "define_word" /\ Len(replies) = 2
    /\ replies[1].kind = "no_candidates" /\ replies[2].kind = "no_text"
    /\ ret.via = "fallback"

\* C5: in the single-phrase lookup, with the credential set, a reply with success status
\* but a malformed payload on the last attempt gives the fallback text, not an error.
C5_PhraseMalformedPayloadGivesFallback ==
    (/\ op = "define_phrase" /\ apiKey /\ pc = "done" /\ replies # <<>>
     /\ LastReply.kind \in MalformedKinds) =>
        /\ ret.go = "return" /\ ret.via = "fallback"
        /\ resp.status # 500

\* C6: in the single-phrase lookup a malformed or undecodable payload on the first
\* attempt leads to the second attempt (timeout 30), and the fallback is returned only
\* after both attempts.
C6_PhraseMalformedPayloadIsRetried ==
    op = "define_phrase" =>
        /\ (Len(replies) >= 1 /\ replies[1].kind \in MalformedKinds \cup {"bad_json"}) =>
               /\ SecondAttemptTaken
               /\ Len(posts) = 2 => posts[2] = 30
        /\ ret.via = "fallback" => Len(replies) = 2

\* C7: the phrase-batch framing client issues exactly one request per call, with timeout
\* 25 and no retry; on every failure it raises to its caller and never returns a fallback.
C7_PhraseBatchOneRequestAndRaises ==
    (op = "frame_phrase_sentences" /\ apiKey /\ ClientCalled) =>
        /\ Len(posts) <= 1
        /\ Len(posts) = 1 => posts[1] = 25
        /\ pc = "done" => Len(posts) = 1 /\ Len(replies) = 1
        /\ (pc = "done" /\ LastReply.kind \in FailureKinds) =>
               /\ ret.go = "raise"
               /\ resp.status = 500
        /\ ret.via # "fallback"

C7_Witness ==
    /\ op = "frame_phrase_sentences" /\ pc = "done"
    /\ posts = <<25>> /\ replies[1].kind = "no_content"
    /\ ret.go = "raise"

NoBraceSpan(text) == ~ \E i, j \in 1..Len(text) : i < j /\ text[i] = "{" /\ text[j] = "}"

SpanFailsToParse(text) ==
    /\ ~NoBraceSpan(text)
    /\ ~Loads(CleanMarkdown(ReSearchBraces(text).group)).ok

IsText(v, s) == v.t = "str" /\ v.s = s
IsEmptyList(v) == v.t = "arr" /\ v.items = <<>>

\* the degraded wrapper of the meanings extractors, field by field
IsDegradedMeanings(d, text, name_key, category_key, related_key) ==
    /\ d.t = "obj"
    /\ Len(d.items) = 2
    /\ IsText(Get(d, name_key, Null), <<"unknown">>)
    /\ LET meanings == Get(d, "meanings", Null)
       IN  /\ meanings.t = "arr"
           /\ Len(meanings.items) = 1
           /\ LET entry == meanings.items[1].val
              IN  /\ entry.t = "obj"
                  /\ Len(entry.items) = 4
                  /\ IsText(Get(entry, "definition", Null), text)
                  /\ IsText(Get(entry, category_key, Null), <<"unknown">>)
                  /\ IsEmptyList(Get(entry, "examples", Null))
                  /\ IsEmptyList(Get(entry, related_key, Null))

\* C10: when the raw text has no "{" (or no "}" after its first "{"), or the brace span
\* fails to parse, the two meanings extractors return the degraded wrapper: one entry
\* whose definition is the entire raw text, name and category "unknown", examples and
\* related terms empty.
C10_DegradedWrapperHoldsTheWholeText ==
    (pc = "extracted" /\ (NoBraceSpan(raw) \/ SpanFailsToParse(raw))) =>
        /\ op = "extract_definitions_from_response_for_words" =>
               IsDegradedMeanings(out.val, raw, "word", "part_of_speech", "synonyms")
        /\ op = "extract_phrase_meanings_from_response" =>
               IsDegradedMeanings(out.val, raw, "phrase", "context", "similar_phrases")

C10_Witness ==
    /\ pc = "extracted" /\ op = "extract_definitions_from_response_for_words"
    /\ SpanFailsToParse(raw)
    /\ raw[1] = " " /\ raw[Len(raw)] = "}"
    /\ out.via = "decode_error"

\* the degraded wrapper each extractor builds from a text
DegradedOf(extractor, text) ==
    CASE extractor = "extract_definitions_from_response_for_words" -> WordWrapper(text)
      [] extractor = "extract_phrase_meanings_from_response" -> PhraseWrapper(text)
      [] extractor = "extract_sentences_from_response" -> SentenceWrapper(text)
      [] OTHER -> PhraseSentenceWrapper(text)

\* text[a..i] and text[j..b] are JSON objects, each valid on its own, where a is the
\* first "{" and b the last "}" of the text and nothing between i and j is a brace
TwoObjectsAt(text, i, j) ==
    LET a == FirstIndex(text, "{")
        b == LastIndex(text, "}")
    IN  /\ 0 < a /\ a < i /\ i < j /\ j < b
        /\ text[i] = "}" /\ text[j] = "{"
        /\ \A k \in (i + 1)..(j - 1) : text[k] \notin {"{", "}"}
        /\ LET first == Loads(SubSeq(text, a, i))
               second == Loads(SubSeq(text, j, b))
           IN  first.ok /\ first.val.t = "obj" /\ second.ok /\ second.val.t = "obj"

HoldsTwoObjects(text) == \E i, j \in 1..Len(text) : TwoObjectsAt(text, i, j)

\* C11: the extractors take the span from the first "{" to the last "}" of the raw text
\* (greedy, not balanced): what they parse is that span, and a text holding two JSON
\* objects, each valid on its own, with brace-free text between them gives the degraded
\* wrapper of the whole text, not either object.
C11_GreedySpanOfTwoObjectsIsDegraded ==
    pc = "extracted" =>
        /\ out.via = "loads" =>
               /\ FirstIndex(raw, "{") > 0 /\ LastIndex(raw, "}") > FirstIndex(raw, "{")
               /\ LET span == SubSeq(raw, FirstIndex(raw, "{"), LastIndex(raw, "}"))
                  IN  Loads(CleanMarkdown(span)).ok /\ out.val = Loads(CleanMarkdown(span)).val
        /\ HoldsTwoObjects(raw) =>
               /\ out.via = "decode_error"
               /\ out.val = DegradedOf(op, raw)

C11_Witness ==
    /\ pc = "extracted" /\ op = "extract_definitions_from_response_for_words"
    /\ HoldsTwoObjects(raw) /\ Contains(raw, <<" and also ">>)
    /\ Len(raw) > 10
    /\ out = Returned("decode_error", WordWrapper(raw))

\* C12: round trip: for every raw text made of prose without braces around one
\* well-formed JSON object, the extractors return that object with every field value
\* unchanged, whatever characters its string values contain.
C12_RoundTrip ==
    \A c \in RoundTripCases :
        (pc = "extracted" /\ raw = c.text) => out = Returned("loads", c.obj)

\* some string inside v is the sentinel "unknown"
RECURSIVE CarriesUnknown(_)
CarriesUnknown(v) ==
    \/ v = Unknown
    \/ \E i \in 1..Len(v.items) : CarriesUnknown(v.items[i].val)

\* the first reply of the lookup is a success whose payload holds the text
FirstReplyIsText == op \in SingleLookups /\ replies # <<>> /\ replies[1].kind = "text"

\* what json.loads makes of the brace span of a text (ok = FALSE: no span, or no JSON)
ParsedSpan(text) ==
    IF ReSearchBraces(text).found THEN Loads(CleanMarkdown(ReSearchBraces(text).group)) ELSE Fail

\* C13 as claimed: for every single-word or single-phrase define request whose first
\* provider attempt returns a valid payload (success status, text field present), no
\* entry of the returned result carries the "unknown" sentinel.
C13_ValidPayloadGivesNoUnknown ==
    (FirstReplyIsText /\ pc = "done") => ~CarriesUnknown(resp.items)

\* C13 as amended: when the first attempt returns a success whose text holds a brace
\* span that parses as JSON, the request ends after that one attempt, and its result is
\* built from the parsed object and not from the degraded wrapper: the returned
\* meanings are the object's "meanings" (none when it has none), so an entry carries
\* "unknown" only if the provider's object does.
C13_ParsedPayloadGivesItsOwnMeanings ==
    (FirstReplyIsText /\ ParsedSpan(replies[1].text).ok) =>
        LET parsed == ParsedSpan(replies[1].text).val
            meanings == Get(parsed, "meanings", JArr(<<>>))
        IN  /\ pc = "done" /\ Len(posts) = 1
            /\ ret = ReturnText("response_text", replies[1].text)
            /\ out = Returned("loads", parsed)
            /\ PyLen(meanings) >= 0 =>
                   /\ resp.status = 200
                   /\ resp.items = meanings /\ resp.total = PyLen(meanings)
                   /\ CarriesUnknown(resp.items) => CarriesUnknown(parsed)
            /\ PyLen(meanings) < 0 => resp = ServerError(MsgNoLen)

C13_Witness ==
    /\ op = "define_word" /\ pc = "done" /\ FirstReplyIsText
    /\ replies[1].text = <<"Sure! Here you go: ">> \o Dumps(GenuineWord)
    /\ resp.status = 200 /\ resp.total = 2
    /\ ~CarriesUnknown(resp.items)

\* C14: for every non-empty word or phrase, also one holding quote, backslash or brace
\* characters, when both provider attempts time out the define endpoint answers with
\* exactly one meaning (total_meanings = 1) whose definition contains
\* "temporarily unavailable".
C14_TwoTimeoutsGiveOnePlaceholderMeaning ==
    (/\ op \in SingleLookups /\ Len(replies) = 2
     /\ replies[1].kind = "timeout" /\ replies[2].kind = "timeout") =>
        /\ pc = "done"
        /\ resp.status = 200 /\ resp.total = 1
        /\ resp.items.t = "arr" /\ Len(resp.items.items) = 1
        /\ LET definition == Get(resp.items.items[1].val, "definition", Null)
           IN  definition.t = "str" /\ Contains(definition.s, <<"temporarily unavailable">>)

C14_Witness ==
    /\ op = "define_word" /\ pc = "done"
    /\ target = <<"a", "\"", ",", " ", "\"", "b">>
    /\ Len(replies) = 2 /\ replies[1].kind = "timeout" /\ replies[2].kind = "timeout"
    /\ out.via = "decode_error"
    /\ resp.total = 1

GenerationRequests == {"define_word", "define_phrase", "frame_sentences", "frame_phrase_sentences"}

NoProviderCall == posts = <<>> /\ inflight = 0 /\ replies = <<>> /\ ret = NoRet

\* C15: empty input is rejected before any provider call: a define request (of a
\* verified caller) whose word or phrase is empty after trimming, and a frame_sentences
\* request of words or of phrases with an empty batch, each end with a 400 error, and
\* no provider request is issued.
C15_EmptyInputIsRejectedBeforeTheProvider ==
    /\ (op \in SingleLookups /\ Strip(request.word) = <<>>) =>
           /\ pc = "done" /\ NoProviderCall
           /\ verify_token(credentials, users_collection).ok => resp.status = 400
           /\ resp.status \in {400, 401}
    /\ (op \in {"frame_sentences", "frame_phrase_sentences"} /\ request.batch = <<>>) =>
           /\ pc = "done" /\ NoProviderCall
           /\ resp.status = 400

C15_Witness ==
    /\ op = "define_phrase" /\ pc = "done"
    /\ request.word = <<" ">>
    /\ current_user = OidStr(2)
    /\ resp.status = 400 /\ posts = <<>>

\* C16: every exception the generation client or the extractor raises during a define
\* or frame_sentences request is caught at the endpoint and answered with a 500 whose
\* detail carries the exception's message; such a request ends in no other failure.
C16_PipelineExceptionsBecome500 ==
    (op \in GenerationRequests /\ pc = "done") =>
        /\ ret.go = "raise" =>
               resp.status = 500 /\ resp.detail = <<"Server error: ", ret.msg>>
        /\ out.via = "raise" =>
               resp.status = 500 /\ resp.detail = <<"Server error: ", MsgNotAString>>
        /\ resp.status \in {200, 400, 401, 500}
        /\ resp.status \in {400, 401} => NoProviderCall /\ out = NoOut

C16_Witness ==
    /\ op = "define_phrase" /\ pc = "done"
    /\ replies # <<>> /\ LastReply.kind = "no_candidates"
    /\ ret.go = "raise"
    /\ resp.detail = <<"Server error: ", MsgInvalidFormat>>

\* C17: within one lookup the attempts are strictly sequential: an attempt is issued
\* only when every earlier one has ended, at most one provider request is in flight,
\* and what a timed-out attempt would have brought is never used: the text handed to
\* the extractor is the text of the last reply, a success, or the fallback text.
C17_AttemptsAreSequential ==
    /\ inflight \in {0, 1}
    /\ inflight = Len(posts) - Len(replies)
    /\ inflight = 1 <=> pc = "wait"
    /\ Len(posts) = 2 => Len(replies) >= 1 /\ replies[1].kind # "text"
    /\ ret.via = "response_text" =>
           /\ LastReply.kind = "text"
           /\ ret.text = LastReply.text
           /\ raw = LastReply.text
    /\ (pc = "done" /\ replies # <<>> /\ LastReply.kind = "timeout") =>
           \/ ret.via = "fallback"
           \/ ret.go = "raise"

C17_Witness ==
    /\ op = "define_word" /\ pc = "done"
    /\ Len(replies) = 2
    /\ replies[1] = Reply("timeout", Dumps(GenuineWord))
    /\ replies[2] = Reply("text", <<"Sorry, I cannot help.">>)
    /\ raw = <<"Sorry, I cannot help.">>

\* C18: on every path where a generation client returns provider text, the returned
\* raw text is a non-empty string.
C18_ReturnedTextIsNonEmpty ==
    ret.via = "response_text" => ret.text # <<>>

\* C19: the define endpoints get definitions without saving: whatever the provider
\* outcome (genuine, fallback, degraded or error), no step of a define request changes
\* the words or the phrases collection.
C19_DefineLeavesCollectionsUnchanged ==
    [][op' \in SingleLookups => UNCHANGED <<words_collection, phrases_collection>>]_vars

C19_Witness ==
    /\ op = "define_word" /\ pc = "done"
    /\ current_user = OidStr(1) /\ target = <<"go", " ", "on">>
    /\ ret.via = "response_text" /\ out.via = "loads" /\ resp.status = 200
    /\ words_collection = StoredWords /\ Len(words_collection) = 2

ProtectedRequests ==
    {"define_word", "add_word_manually", "get_my_words", "delete_word", "delete_word_by_id",
     "define_phrase", "add_phrase_manually", "get_my_phrases", "delete_phrase",
     "delete_phrase_by_id"}

\* the token is expired or invalid, or its subject is not the id of a user
BadToken(token) ==
    \/ token.jwt \in {"expired", "invalid"}
    \/ ~token.user_id.hex
    \/ \A i \in 1..Len(users_collection) : users_collection[i]._id # token.user_id.oid

OwnedBy(collection, oid) == SelectSeq(collection, LAMBDA d : d.user_id = oid)
NotOwnedBy(collection, oid) == SelectSeq(collection, LAMBDA d : d.user_id # oid)

\* the collection is the stored one with documents of oid added or removed, and
\* nothing else touched
ChangedOnlyFor(collection, stored, oid) == NotOwnedBy(collection, oid) = NotOwnedBy(stored, oid)

FramingRequests == {"frame_sentences", "frame_phrase_sentences"}

\* C22: every successful batch sentence-framing request returns one sentence group per
\* input target: the reported number of groups (total_words / total_phrases) equals the
\* number of targets processed (words_processed / phrases_processed).
C22_OneSentenceGroupPerTarget ==
    (op \in FramingRequests /\ pc = "done" /\ resp.status = 200) =>
        /\ resp.total = resp.processed
        /\ PyLen(resp.items) = Len(request.batch)

\* the keys of a dict
Keys(v) == { v.items[i].k : i \in 1..Len(v.items) }

\* the key sets of the entries of a list of dicts
EntryFields(list) == { Keys(list.items[i].val) : i \in 1..Len(list.items) }

\* the keys a response carries a value under
ResponseKeys(response) == { key \in DOMAIN NoResp : response[key] # NoResp[key] }

\* what a caller sees of a response without reading its values
Shape(response) ==
    [status |-> response.status, keys |-> ResponseKeys(response), source |-> response.source,
     items |-> response.items.t, fields |-> EntryFields(response.items)]

\* the define response to a genuine provider answer for the same target
GenuineAnswer(endpoint, text) ==
    IF endpoint = "define_word"
    THEN define_word_finish(text, ReturnText("response_text", Dumps(GenuineWord))).resp
    ELSE define_phrase_finish(text, ReturnText("response_text", Dumps(GenuinePhrase))).resp

\* C23: a define response built from a fallback result has the shape of one built from
\* a genuine provider answer: the same keys (target, meanings, total_meanings, source),
\* the same entry fields, and source "gemini_api" in both, so that no field of the
\* response marks it as a fallback.
C23_FallbackResponseHasTheGenuineShape ==
    (op \in SingleLookups /\ pc = "done" /\ ret.go = "return" /\ ret.via = "fallback") =>
        /\ resp.status = 200
        /\ resp.source = "gemini_api"
        /\ GenuineAnswer(op, target).source = "gemini_api"
        /\ Shape(resp) = Shape(GenuineAnswer(op, target))

C23_Witness ==
    /\ op = "define_phrase" /\ pc = "done" /\ ret.via = "fallback"
    /\ target = <<"go", " ", "on">>
    /\ out.via = "loads"
    /\ resp.source = "gemini_api"
    /\ EntryFields(resp.items) = {{<<"definition">>, <<"context">>, <<"examples">>,
                                   <<"similar_phrases">>}}

\* C24: when both provider attempts fail for a word-batch framing request, the fallback
\* built by get_fallback_sentences (one entry per input word, in input order) passes
\* through extract_sentences_from_response without an exception and
\* /sentences/frame_sentences answers 200 with those fallback sentence groups.
C24_WordBatchFallbackIsAnswered ==
    (op = "frame_sentences" /\ pc = "done" /\ ret.go = "return" /\ ret.via = "fallback") =>
        /\ ret.data = get_fallback_sentences(request.batch)
        /\ out.via # "raise"
        /\ resp.status = 200
        /\ resp.items = Get(get_fallback_sentences(request.batch), "sentences", JArr(<<>>))
        /\ resp.total = Len(request.batch)

\* the ids of the users of db.users
UserIds == { Users[i]._id : i \in 1..Len(Users) }

WordEndpoints == {"add_word_manually", "get_my_words", "delete_word", "delete_word_by_id",
                  "define_word", "define_word_saving"}
AddEndpoints == {"add_word_manually", "add_phrase_manually"}

\* the collection an endpoint works on, of the two given
CollectionOf(name, words, phrases) == IF name \in WordEndpoints THEN words ELSE phrases

\* no two documents of the collection have the same user and the same text
UniquePerUser(collection) ==
    \A i, j \in 1..Len(collection) :
        (collection[i].user_id = collection[j].user_id /\ collection[i].text = collection[j].text)
            => i = j

\* every text of the collection is stored stripped and lower-cased
StoredNormalized(collection) ==
    \A i \in 1..Len(collection) : collection[i].text = Lower(Strip(collection[i].text))

\* C21: in every reachable state, also while add requests for the same user and the
\* same normalized text are being handled side by side, each of the words and phrases
\* collections holds at most one document per (user_id, stripped lower-cased text).
C21_AtMostOneDocumentPerUserAndText ==
    /\ UniquePerUser(words_collection) /\ StoredNormalized(words_collection)
    /\ UniquePerUser(phrases_collection) /\ StoredNormalized(phrases_collection)

C21_Witness ==
    /\ handlers[1].op = "add_phrase_manually" /\ handlers[2].op = "add_phrase_manually"
    /\ handlers[1].current_user = OidStr(2) /\ handlers[2].current_user = OidStr(2)
    /\ handlers[1].request.word = <<"go", " ", "on">>
    /\ handlers[2].request.word = <<"GO", " ", "on", " ">>
    /\ handlers[1].pc = "insert" /\ loop = 1
    /\ handlers[2].pc = "ready"
    /\ find(phrases_collection, [user_id |-> 2, text |-> <<"go", " ", "on">>]) = <<>>

\* the step is the return (or the exception) of the handler in slot i
Returns(i) == handlers[i].pc \in {"ready", "insert"} /\ handlers'[i].pc = "done"

\* the step is taken by the handler in slot i
Acts(i) == handlers[i].pc \in {"ready", "insert"} /\ handlers'[i] # handlers[i]

\* C25: adding a word or phrase whose stripped lower-cased form already exists for the
\* calling user, whatever its case or surrounding white space, is rejected with 409
\* and leaves the collection unchanged; adding one that does not exist yet inserts
\* exactly one document, owned by the caller.
C25_AddRejectsWhatExistsAndInsertsOnce ==
    [][\A i \in Slots :
          (handlers[i].op \in AddEndpoints /\ Returns(i)) =>
              LET h == handlers[i]
                  before == CollectionOf(h.op, words_collection, phrases_collection)
                  after == CollectionOf(h.op, words_collection', phrases_collection')
                  text == Lower(Strip(h.request.word))
                  mine == find(before, [user_id |-> h.current_user.oid, text |-> text])
              IN  /\ text # <<>>
                  /\ IF mine # <<>>
                     THEN handlers'[i].resp.status = 409 /\ after = before
                     ELSE /\ handlers'[i].resp.status = 200
                          /\ Len(after) = Len(before) + 1
                          /\ SubSeq(after, 1, Len(before)) = before
                          /\ after[Len(after)].user_id = h.current_user.oid
                          /\ after[Len(after)].text = text
                  /\ UNCHANGED CollectionOf(h.op, phrases_collection, words_collection)
      ]_vars

C25_Witness ==
    \E i \in Slots :
        /\ handlers[i].op = "add_word_manually" /\ handlers[i].pc = "done"
        /\ handlers[i].current_user = OidStr(1)
        /\ handlers[i].request.word = <<" ", "GO", "\n">>
        /\ handlers[i].resp.status = 409
        /\ words_collection = StoredWords

\* the documents of a sequence, as a set
Range(documents) == { documents[i] : i \in 1..Len(documents) }

\* C26: a step of a handler acting for user A leaves the documents of every other user
\* B as they are, in both collections; my_words / my_phrases returns exactly the
\* caller's documents; delete_by_id with the id of another user's document returns 404
\* and deletes nothing.
C26_UsersAreIsolated ==
    [][\A i \in Slots :
          Acts(i) =>
              LET h == handlers[i]
                  A == h.current_user.oid
                  before == CollectionOf(h.op, words_collection, phrases_collection)
                  after == CollectionOf(h.op, words_collection', phrases_collection')
              IN  /\ \A B \in UserIds \ {A} :
                         /\ OwnedBy(words_collection', B) = OwnedBy(words_collection, B)
                         /\ OwnedBy(phrases_collection', B) = OwnedBy(phrases_collection, B)
                  /\ h.op \in {"get_my_words", "get_my_phrases"} =>
                         /\ handlers'[i].resp.status = 200
                         /\ Range(handlers'[i].resp.docs) = Range(OwnedBy(before, A))
                         /\ Len(handlers'[i].resp.docs) = Len(OwnedBy(before, A))
                         /\ after = before
                  /\ (/\ h.op \in {"delete_word_by_id", "delete_phrase_by_id"}
                      /\ \E d \in Range(before) : d._id = h.request.id.oid /\ d.user_id # A) =>
                         /\ handlers'[i].resp.status = 404
                         /\ after = before
      ]_vars

C26_Witness ==
    \E i \in Slots :
        /\ handlers[i].op = "delete_word_by_id" /\ handlers[i].pc = "done"
        /\ handlers[i].current_user = OidStr(1)
        /\ handlers[i].request.id = OidStr(4)
        /\ handlers[i].resp.status = 404
        /\ \E k \in 1..Len(words_collection) :
               words_collection[k]._id = 4 /\ words_collection[k].user_id = 2
        /\ words_collection # StoredWords

\* the texts a request can send for a stored text
SentFor(text) == { w \in StoreWords \cup StorePhrases : Lower(Strip(w)) = text }

\* C27: deleting a word or phrase that is not in the caller's collection returns 404 and
\* leaves the collection unchanged; deleting one that is there removes exactly that one
\* document; so an add of a new item followed by a delete of the same normalized text
\* restores the collection to its contents before the add.
C27_DeleteRemovesExactlyOneOrNothing ==
    [][\A i \in Slots :
          LET h == handlers[i]
              A == h.current_user.oid
              before == CollectionOf(h.op, words_collection, phrases_collection)
              after == CollectionOf(h.op, words_collection', phrases_collection')
              text == Lower(Strip(h.request.word))
              there == { k \in 1..Len(before) : before[k].user_id = A /\ before[k].text = text }
          IN  /\ (h.op \in {"delete_word", "delete_phrase"} /\ Returns(i)) =>
                     IF there = {}
                     THEN handlers'[i].resp.status = 404 /\ after = before
                     ELSE /\ handlers'[i].resp.status = 200
                          /\ handlers'[i].resp.deleted_count = 1
                          /\ \E k \in there :
                                 after = SubSeq(before, 1, k - 1)
                                         \o SubSeq(before, k + 1, Len(before))
              /\ (h.op \in AddEndpoints /\ Returns(i) /\ handlers'[i].resp.status = 200) =>
                     \A sent \in SentFor(text) :
                         LET deleted == DeleteByText("Word", after, nextId', h.current_user, sent)
                         IN  deleted.resp.status = 200 /\ deleted.collection = before
      ]_vars

C27_Witness ==
    \E i \in Slots :
        /\ handlers[i].op = "delete_word" /\ handlers[i].pc = "done"
        /\ handlers[i].current_user = OidStr(2)
        /\ handlers[i].request.word = <<"on">>
        /\ handlers[i].resp.status = 200
        /\ nextId = FirstFreeId + 1
        /\ words_collection = StoredWords

\* the documents a user holds for a text
RecordOf(collection, A, text) == find(collection, [user_id |-> A, text |-> text])

\* one of the meanings says that the definition is temporarily unavailable
HoldsPlaceholder(meanings) ==
    \E k \in 1..Len(meanings.items) :
        LET definition == Get(meanings.items[k].val, "definition", Null)
        IN  definition.t = "str" /\ Contains(definition.s, <<"temporarily unavailable">>)

\* C28: the define that saves (server.py) persists a fallback or degraded result like a
\* genuine one: a define of word w during a provider outage stores a record for
\* (user, w) that holds the placeholder meaning; every later define of w by that user,
\* also with a healthy provider, reports "already_exists" and leaves the stored record
\* as it is; the record stays until its owner deletes it.
C28_FallbackIsSavedAndStays ==
    [][/\ \A i \in Slots :
             LET h == handlers[i]
                 A == h.current_user.oid
                 word == Lower(Strip(h.request.word))
                 before == RecordOf(words_collection, A, word)
                 after == RecordOf(words_collection', A, word)
                 outage == DefineWordSaving(words_collection, nextId, 0, h.current_user,
                                            h.request.word, apiKey, Outage[1], Outage[2])
             IN  (h.op = "define_word_saving" /\ Returns(i)) =>
                     /\ handlers'[i].resp.status = 200
                     /\ IF before = <<>>
                        THEN /\ handlers'[i].resp.message = "saved"
                             /\ Len(after) = 1
                             /\ after[1].meanings = handlers'[i].resp.items
                             /\ handlers'[i].resp.id = OidStr(after[1]._id)
                             /\ HoldsPlaceholder(RecordOf(outage.collection, A, word)[1].meanings)
                        ELSE /\ handlers'[i].resp.message = "already_exists"
                             /\ handlers'[i].resp.id = NotAnId
                             /\ words_collection' = words_collection
       /\ \A d \in Range(words_collection) :
             d \notin Range(words_collection') =>
                 \E i \in Slots :
                     /\ Acts(i)
                     /\ handlers[i].current_user.oid = d.user_id
                     /\ \/ /\ handlers[i].op = "delete_word"
                           /\ Lower(Strip(handlers[i].request.word)) = d.text
                        \/ /\ handlers[i].op = "delete_word_by_id"
                           /\ handlers[i].request.id = OidStr(d._id)
      ]_vars

C28_Witness ==
    \E i \in Slots :
        /\ handlers[i].op = "define_word_saving" /\ handlers[i].pc = "done"
        /\ handlers[i].current_user = OidStr(1)
        /\ handlers[i].resp.message = "already_exists"
        /\ handlers[i].resp.total = 2 /\ ~HoldsPlaceholder(handlers[i].resp.items)
        /\ LET stored == RecordOf(words_collection, 1, <<"on">>)
           IN  Len(stored) = 1 /\ HoldsPlaceholder(stored[1].meanings)


\* a signup that has answered
SignupDone(i) == handlers[i].op = "signup" /\ handlers[i].pc = "done"

\* C29: after any interleaving of signups, two overlapping ones with the same address
\* included, db.users holds at most one user per lower-cased address, and a signup
\* whose password has fewer than 6 characters is answered 400
C29_OneUserPerEmail ==
    /\ \A a, b \in 1..Len(users_collection) :
           LowerEmail(users_collection[a].email) = LowerEmail(users_collection[b].email)
               => a = b
    /\ \A i \in Slots :
           SignupDone(i) /\ Len(handlers[i].request.password) < 6
               => handlers[i].resp.status = 400

====
